---- MODULE Spec2Model ----
(***************************************************************************)
(* Kanmi Levers Guard (src/src/extension.ts): the diagnostic collection    *)
(* kept by activate(), the scanDocument handler with its detectors, and    *)
(* the calculateMaxDOMDepth loop.                                          *)
(*                                                                         *)
(* A document text is a sequence of lexical items (runs of inert           *)
(* characters, whitespace, line breaks, tags with their attributes,        *)
(* import/require statements).  Every regular expression of the source is  *)
(* modelled by what it matches on such a sequence; strings the code takes  *)
(* apart (import paths, attribute values) are sequences of atoms, the      *)
(* characters '/', '@' being atoms of their own.                           *)
(***************************************************************************)
EXTENDS Integers, Sequences, FiniteSets, TLC

VARIABLES
  corpus,         \* the inputs the environment draws from in this run: a name, the files
  docText,        \* file -> the text of the document (doc.getText())
  policyFile,     \* what kanmi.policy.json holds at the workspace root
  settings,       \* the editor configuration (kanmi.requireCanonical, ...)
  collection,     \* the diagnostic collection: file -> the diagnostics set for it
  debounceTimer,  \* the timer the last change event set, and the document it scans
  lastScan,       \* file -> the last scanDocument call on it: its inputs and outcome
  probe,          \* history: one input (file, text, policy file, settings) that is watched
  probeLog,       \* history: the scans run on the probe, and what the first published
  burst,          \* debounce: the change events and the quiet time since the last timer scan
  batch,          \* the kanmi.scan command: where its loop stands, what it has shown
  html,           \* calculateMaxDOMDepth: the text being measured
  tagIndex,       \* calculateMaxDOMDepth: how many tag matches the loop has consumed
  currentDepth,   \* calculateMaxDOMDepth: the running depth
  maxDepth,       \* calculateMaxDOMDepth: the maximum seen
  depthPc         \* calculateMaxDOMDepth: "loop" | "returned"

hostVars == <<docText, policyFile, settings, collection, debounceTimer, lastScan,
              probe, probeLog, burst, batch>>
depthVars == <<html, tagIndex, currentDepth, maxDepth, depthPc>>
vars == <<corpus, docText, policyFile, settings, collection, debounceTimer, lastScan,
          probe, probeLog, burst, batch, html, tagIndex, currentDepth, maxDepth, depthPc>>

Max(a, b) == IF a >= b THEN a ELSE b

(***************************************************************************)
(* JavaScript values that reach a comparison or a message.                 *)
(***************************************************************************)
Num(n) == [t |-> "number", v |-> n, s |-> ""]
NaN == [t |-> "NaN", v |-> 0, s |-> ""]
Undefined == [t |-> "undefined", v |-> 0, s |-> ""]
Bool(b) == [t |-> "boolean", v |-> IF b THEN 1 ELSE 0, s |-> ""]
Str(x) == [t |-> "string", v |-> 0, s |-> x]
Null == [t |-> "null", v |-> 0, s |-> ""]
\* an array of strings, and an object whose only property is length
Arr(items) == [t |-> "array", v |-> 0, s |-> "", items |-> items]
ArrayLike(n) == [t |-> "object", v |-> 0, s |-> "", length |-> Num(n)]

\* a ?? b
Coalesce(a, b) == IF a.t \in {"undefined", "null"} THEN b ELSE a

\* the strings of the model that read as a decimal number
DecimalStrings == [x \in {"", "5", "40"} |-> CASE x = "" -> 0 [] x = "5" -> 5 [] x = "40" -> 40]
\* ToNumber for the values above
ToNumber(a) ==
  CASE a.t \in {"number", "boolean"} -> a
    [] a.t = "null" -> Num(0)
    [] a.t = "string" /\ a.s \in DOMAIN DecimalStrings -> Num(DecimalStrings[a.s])
    [] OTHER -> NaN

\* a >= b, a <= b, a > b: false as soon as one side is NaN
JsGe(a, b) == ToNumber(a).t # "NaN" /\ ToNumber(b).t # "NaN" /\ ToNumber(a).v >= ToNumber(b).v
JsLe(a, b) == ToNumber(a).t # "NaN" /\ ToNumber(b).t # "NaN" /\ ToNumber(a).v <= ToNumber(b).v
JsGt(a, b) == ToNumber(a).t # "NaN" /\ ToNumber(b).t # "NaN" /\ ToNumber(a).v > ToNumber(b).v

\* a + b on numbers
JsAdd(a, b) ==
  IF ToNumber(a).t = "NaN" \/ ToNumber(b).t = "NaN" THEN NaN
  ELSE Num(ToNumber(a).v + ToNumber(b).v)

\* the truthiness an if () tests
Truthy(a) ==
  CASE a.t \in {"undefined", "null"} -> FALSE
    [] a.t = "NaN" -> FALSE
    [] a.t = "number" -> a.v # 0
    [] a.t = "boolean" -> a.v = 1
    [] a.t = "string" -> a.s # ""
    [] OTHER -> TRUE

(***************************************************************************)
(* Strings as sequences of atoms.                                          *)
(***************************************************************************)
RECURSIVE AtomsLen(_)
AtomsLen(a) == IF a = <<>> THEN 0 ELSE Len(Head(a)) + AtomsLen(Tail(a))

RECURSIVE Concat(_)
Concat(a) == IF a = <<>> THEN "" ELSE Head(a) \o Concat(Tail(a))

\* String.prototype.split('/'): the segments, each a sequence of atoms
RECURSIVE SplitSlash(_, _)
SplitSlash(a, cur) ==
  IF a = <<>> THEN <<cur>>
  ELSE IF Head(a) = "/" THEN <<cur>> \o SplitSlash(Tail(a), <<>>)
  ELSE SplitSlash(Tail(a), Append(cur, Head(a)))

\* Array.prototype.join('/')
RECURSIVE JoinSlash(_)
JoinSlash(segs) ==
  IF segs = <<>> THEN <<>>
  ELSE IF Len(segs) = 1 THEN Head(segs)
  ELSE Head(segs) \o <<"/">> \o JoinSlash(Tail(segs))

\* Array.prototype.join(', ') on strings
RECURSIVE JoinComma(_)
JoinComma(strs) ==
  IF strs = <<>> THEN ""
  ELSE IF Len(strs) = 1 THEN Head(strs)
  ELSE Head(strs) \o ", " \o JoinComma(Tail(strs))

\* String.prototype.toLowerCase on the tag names of the vocabulary
toLowerCase(name) ==
  CASE name \in {"HEAD", "Head"} -> "head"
    [] name \in {"TITLE", "Title"} -> "title"
    [] name = "BR" -> "br"
    [] name = "DIV" -> "div"
    [] name = "META" -> "meta"
    [] name \in {"IMG", "Img"} -> "img"
    [] name \in {"IMAGE", "Image"} -> "image"
    [] name \in {"SCRIPT", "Script"} -> "script"
    [] name \in {"LINK", "Link"} -> "link"
    [] OTHER -> name

(***************************************************************************)
(* Lexical items.                                                          *)
(***************************************************************************)
Chars(n) == [k |-> "chars", n |-> n]          \* n inert non-blank ASCII characters
Word(w) == [k |-> "word", w |-> w, n |-> 1]   \* a word of the prose or of the script
Spaces(n) == [k |-> "ws", n |-> n]            \* n blanks
NewLine == [k |-> "nl", n |-> 1]              \* one line feed
Wide(n) == [k |-> "wide", n |-> n]            \* n inert characters of two bytes each
Attr(an, av) == [an |-> an, av |-> av, bare |-> FALSE]   \* an="av"
BareAttr(an) == [an |-> an, av |-> <<>>, bare |-> TRUE]  \* an
\* an={expression}: a JSX attribute whose value is written without quotes
JsxExpressions == {"{title}", "{800}", "{600}", "{1200}", "{630}", "{heroImage}"}
JsxAttr(an, e) == [an |-> an, av |-> <<e>>, bare |-> FALSE]
IsJsxValue(attr) == ~attr.bare /\ Len(attr.av) = 1 /\ attr.av[1] \in JsxExpressions
\* an="value" or an='value'
IsQuoted(attr) == ~attr.bare /\ ~IsJsxValue(attr)
\* n copies in a row of <name attrs>, </name> or <name attrs/>
TagRun(close, name, attrs, self, n) ==
  [k |-> "tag", close |-> close, name |-> name, attrs |-> attrs, self |-> self, n |-> n]
Open(name) == TagRun(FALSE, name, <<>>, FALSE, 1)
OpenWith(name, attrs) == TagRun(FALSE, name, attrs, FALSE, 1)
Close(name) == TagRun(TRUE, name, <<>>, FALSE, 1)
SelfClosing(name, attrs) == TagRun(FALSE, name, attrs, TRUE, 1)
\* import <binding> from '<path>'   or   require('<path>')
ImportFrom(binding, q, path) ==
  [k |-> "import", form |-> "from", binding |-> binding, q |-> q, path |-> path, n |-> 1]
Require(q, path) ==
  [k |-> "import", form |-> "require", binding |-> "", q |-> q, path |-> path, n |-> 1]

\* @font-face{font-display:<display>}  (display "": no font-display descriptor)
FontFace(display) == [k |-> "fontface", display |-> display, n |-> 1]

RECURSIVE AttrsLen(_)
AttrsLen(attrs) ==
  IF attrs = <<>> THEN 0
  ELSE (IF Head(attrs).bare THEN 1 + Len(Head(attrs).an)
        ELSE IF IsJsxValue(Head(attrs))
        THEN 1 + Len(Head(attrs).an) + 1 + AtomsLen(Head(attrs).av)
        ELSE 1 + Len(Head(attrs).an) + 2 + AtomsLen(Head(attrs).av) + 1)
       + AttrsLen(Tail(attrs))

\* the number of characters of one copy of an item
UnitLen(it) ==
  CASE it.k \in {"chars", "ws", "nl", "wide"} -> 1
    [] it.k = "word" -> Len(it.w)
    [] it.k = "fontface" ->
         11 + (IF it.display = "" THEN 0 ELSE 13 + Len(it.display)) + 1
    [] it.k = "tag" ->
         1 + (IF it.close THEN 1 ELSE 0) + Len(it.name) + AttrsLen(it.attrs)
           + (IF it.self THEN 1 ELSE 0) + 1
    [] it.k = "import" ->
         IF it.form = "from" THEN 7 + Len(it.binding) + 6 + 1 + AtomsLen(it.path) + 1
         ELSE 8 + 1 + AtomsLen(it.path) + 1 + 1

ItemLen(it) == it.n * UnitLen(it)

\* text.length
RECURSIVE TextLen(_)
TextLen(text) == IF text = <<>> THEN 0 ELSE ItemLen(Head(text)) + TextLen(Tail(text))

\* Buffer.byteLength(text, 'utf8'): one byte for an ASCII character
RECURSIVE byteLength(_)
byteLength(text) ==
  IF text = <<>> THEN 0
  ELSE (IF Head(text).k = "wide" THEN 2 ELSE 1) * ItemLen(Head(text))
         + byteLength(Tail(text))

IsBlank(it) == it.k \in {"ws", "nl"}

RECURSIVE LeadingBlanks(_)
LeadingBlanks(text) ==
  IF text = <<>> \/ ~IsBlank(Head(text)) THEN 0
  ELSE ItemLen(Head(text)) + LeadingBlanks(Tail(text))

RECURSIVE TrailingBlanks(_)
TrailingBlanks(text) ==
  IF text = <<>> \/ ~IsBlank(text[Len(text)]) THEN 0
  ELSE ItemLen(text[Len(text)]) + TrailingBlanks(SubSeq(text, 1, Len(text) - 1))

\* s.trim().length
TrimLength(text) ==
  IF LeadingBlanks(text) = TextLen(text) THEN 0
  ELSE TextLen(text) - LeadingBlanks(text) - TrailingBlanks(text)

(***************************************************************************)
(* Positions and ranges.                                                   *)
(***************************************************************************)
Position(line, character) == [line |-> line, character |-> character]
Range(start, end) == [start |-> start, end |-> end]

\* new vscode.Range(new vscode.Position(0, 0), new vscode.Position(0, 1))
DocumentStart == Range(Position(0, 0), Position(0, 1))

RECURSIVE LinesIn(_)
LinesIn(text) ==
  IF text = <<>> THEN 0
  ELSE (IF Head(text).k = "nl" THEN 1 ELSE 0) + LinesIn(Tail(text))

\* the characters after the last line feed
RECURSIVE ColumnIn(_)
ColumnIn(text) ==
  IF text = <<>> \/ text[Len(text)].k = "nl" THEN 0
  ELSE ItemLen(text[Len(text)]) + ColumnIn(SubSeq(text, 1, Len(text) - 1))

\* doc.positionAt(offset) for the offset c copies into item i (c = 0: where the
\* item starts); a run of several copies holds no line feed
positionAt(text, i, c) ==
  Position(LinesIn(SubSeq(text, 1, i - 1)),
           ColumnIn(SubSeq(text, 1, i - 1)) + (IF c = 0 THEN 0 ELSE c * UnitLen(text[i])))

\* the range of a match that starts with copy c of item i and ends with copy d of item j
MatchRange(text, i, c, j, d) == Range(positionAt(text, i, c - 1), positionAt(text, j, d))

\* the range of copy c of item i
CopyRange(text, i, c) == MatchRange(text, i, c, i, c)

\* buildDiagnostic
buildDiagnostic(range, message, code, severity) ==
  [range |-> range, message |-> message, code |-> code, severity |-> severity,
   source |-> "Kanmi"]

Message(tpl, args) == [tpl |-> tpl, args |-> args]


(***************************************************************************)
(* The policy file and the editor configuration.                           *)
(***************************************************************************)
NoSection == [present |-> FALSE]
EmptyPolicy == [seo |-> NoSection, perf |-> NoSection]     \* {}

\* readPolicy(): {} unless the file is there, readable and parses
readPolicy(file) == IF file.state = "json" THEN file.value ELSE EmptyPolicy

\* policy.seo?.<f> and policy.perf?.<f>
\* (a value that is no object has neither property; reading them off null throws)
SeoField(policy, f) ==
  IF "seo" \notin DOMAIN policy THEN Undefined
  ELSE IF policy.seo.present /\ f \in DOMAIN policy.seo THEN policy.seo[f] ELSE Undefined
PerfField_orLcpImageKB(policy, f) ==
  IF "perf" \notin DOMAIN policy THEN Undefined
  ELSE IF policy.perf.present /\ f \in DOMAIN policy.perf THEN policy.perf[f]
  ELSE IF policy.perf.present /\ "lcpImageKB" \in DOMAIN policy.perf
  THEN policy.perf.lcpImageKB ELSE Undefined
PerfField(policy, f) ==
  IF "perf" \notin DOMAIN policy THEN Undefined
  ELSE IF policy.perf.present /\ f \in DOMAIN policy.perf THEN policy.perf[f] ELSE Undefined

DefaultTitleMin == 30
DefaultTitleMax == 60
DefaultDescMin == 50
DefaultDescMax == 160

titleMin_zeroDefault(policy) == Coalesce(SeoField(policy, "titleMin"), Num(0))
titleMin(policy) == Coalesce(SeoField(policy, "titleMin"), Num(DefaultTitleMin))
titleMax(policy) == Coalesce(SeoField(policy, "titleMax"), Num(DefaultTitleMax))
descMin(policy) == Coalesce(SeoField(policy, "metaDescriptionMin"), Num(DefaultDescMin))
descMax(policy) == Coalesce(SeoField(policy, "metaDescriptionMax"), Num(DefaultDescMax))
requireCanonical(policy, config) ==
  Coalesce(SeoField(policy, "requireCanonical"), Bool(config.requireCanonical))
requireTypes(policy) == Coalesce(SeoField(policy, "requireJsonLdFor"), Arr(<<>>))
\* requireTypes.length
lengthOf(a) ==
  CASE a.t = "array" -> Num(Len(a.items))
    [] a.t = "string" -> Num(Len(a.s))
    [] a.t = "object" -> a.length
    [] OTHER -> Undefined
\* requireTypes.includes(x): an element of an array, a part of a string (a string
\* of the model holds a keyword when it is that keyword)
includes(a, x) ==
  CASE a.t = "array" -> \E k \in 1..Len(a.items) : a.items[k] = x
    [] a.t = "string" -> a.s = x
    [] OTHER -> FALSE
\* TypeError: requireTypes.includes is not a function
includesThrows(a) == Truthy(lengthOf(a)) /\ a.t \notin {"array", "string"}
maxTP(policy, config) ==
  Coalesce(PerfField(policy, "maxThirdPartyScriptsPerPage"),
           Num(config.maxThirdPartyScriptsPerPage))

within_exclusive(n, min, max) == JsGt(n, min) /\ JsGt(max, n)

\* Test whether a value lies within a range of inclusive min and max.
within(n, min, max) == JsGe(n, min) /\ JsLe(n, max)

(***************************************************************************)
(* What the regular expressions match.                                     *)
(***************************************************************************)
IsTag(it) == it.k = "tag"
Indices(text) == 1..Len(text)
Least(S) == CHOOSE i \in S : \A j \in S : i <= j
NoMatch == [found |-> FALSE]

\* the attributes written between the tag name and the closing bracket
HasAttr(it, an) == \E a \in 1..Len(it.attrs) : it.attrs[a].an = an
AttrValue(it, an) ==
  LET a == Least({b \in 1..Len(it.attrs) : it.attrs[b].an = an}) IN it.attrs[a].av
\* name="value" with a value that is not empty
HasValued(it, an) ==
  \E a \in 1..Len(it.attrs) :
    it.attrs[a].an = an /\ IsQuoted(it.attrs[a]) /\ it.attrs[a].av # <<>>

\* /<title>/i and /<\/title>/ : the bare tag, in any case
IsTitleOpen(it) ==
  IsTag(it) /\ ~it.close /\ ~it.self /\ it.attrs = <<>> /\ toLowerCase(it.name) = "title"
IsTitleClose(it) ==
  IsTag(it) /\ it.close /\ ~it.self /\ it.attrs = <<>> /\ toLowerCase(it.name) = "title"

\* /<title>([\s\S]*?)<\/title>/i.exec(text): the leftmost <title> that a </title>
\* follows, up to the first such </title>
titleMatch(text) ==
  LET opens == {i \in Indices(text) : IsTitleOpen(text[i])}
      closesAfter(i) ==
        {j \in Indices(text) : IsTitleClose(text[j]) /\ j > i}
      ok == {i \in opens : closesAfter(i) # {}}
  IN IF ok = {} THEN NoMatch
     ELSE LET i == Least(ok)
              j == Least(closesAfter(i))
              rest == IF text[i].n > 1
                      THEN <<[text[i] EXCEPT !.n = text[i].n - 1]>> ELSE <<>>
          IN [found |-> TRUE, first |-> i, last |-> j,
              group1 |-> rest \o SubSeq(text, i + 1, j - 1)]

\* /<head>/i.test(text)
hasHeadTag(text) ==
  \E i \in Indices(text) :
    IsTag(text[i]) /\ ~text[i].close /\ ~text[i].self /\ text[i].attrs = <<>>
      /\ toLowerCase(text[i].name) = "head"

\* the strings of an item in which a substring can be looked for
ItemStrings(it) ==
  CASE it.k = "import" -> {it.path}
    [] it.k = "tag" -> {it.attrs[a].av : a \in 1..Len(it.attrs)}
    [] OTHER -> {}

HasSubPath(atoms, sub) ==
  \E i \in 1..Len(atoms) :
    i + Len(sub) - 1 <= Len(atoms) /\ SubSeq(atoms, i, i + Len(sub) - 1) = sub

isNextJs_fromOnly(text) ==
  \E i \in Indices(text) :
    text[i].k = "import" /\ text[i].form = "from" /\ text[i].path = <<"next">>

\* text.includes('next/head') || text.includes('from "next"') || text.includes("from 'next'")
isNextJs(text) ==
  \E i \in Indices(text) :
    \/ \E s \in ItemStrings(text[i]) : HasSubPath(s, <<"next", "/", "head">>)
    \/ text[i].k = "import" /\ text[i].form = "from" /\ text[i].path = <<"next">>

\* text.includes('import React') || text.includes('from "react"') || text.includes("from 'react'")
isReact(text) ==
  \E i \in Indices(text) :
    text[i].k = "import" /\ text[i].form = "from"
      /\ (text[i].binding = "React" \/ text[i].path = <<"react">>)

\* /\.(jsx|tsx)$/.test(doc.fileName)
isJsxFile(file) == file.ext \in {"jsx", "tsx"}

\* /\.(jsx?|tsx?|html)$/.test(doc.fileName)
isSupportedFile(file) == file.ext \in {"js", "jsx", "ts", "tsx", "html"}

(***************************************************************************)
(* SEO rules.                                                              *)
(***************************************************************************)
titleDiagnostics(text, file, policy) ==
  LET m == titleMatch(text) IN
  IF m.found
  THEN LET title == TrimLength(m.group1) IN
       IF ~within(Num(title), titleMin(policy), titleMax(policy))
       THEN <<buildDiagnostic(
                MatchRange(text, m.first, 1, m.last, 1),
                Message("Title length is {} characters; aim for {}-{} characters.",
                        <<Num(title), titleMin(policy), titleMax(policy)>>),
                "SEO_TITLE_LENGTH", "Warning")>>
       ELSE <<>>
  ELSE IF hasHeadTag(text) /\ ~isNextJs(text) /\ ~isJsxFile(file)
       THEN <<buildDiagnostic(
                DocumentStart,
                Message("Missing <title>. Add a focused, query-matching title (30-60 characters).",
                        <<>>),
                "SEO_TITLE_MISSING", "Warning")>>
       ELSE <<>>

\* /<meta\s+name=["']description["']\s+content=["']([^"']+)["'][^>]*>/i : a meta tag
\* whose first attribute is name="description" and whose second is a content that is
\* not empty
IsMetaDescription(it) ==
  IsTag(it) /\ ~it.close /\ toLowerCase(it.name) = "meta" /\ Len(it.attrs) >= 2
    /\ it.attrs[1].an = "name" /\ ~it.attrs[1].bare /\ it.attrs[1].av = <<"description">>
    /\ it.attrs[2].an = "content" /\ ~it.attrs[2].bare /\ it.attrs[2].av # <<>>

metaDescDiagnostics(text, policy) ==
  LET hits == {i \in Indices(text) : IsMetaDescription(text[i])} IN
  IF hits # {}
  THEN LET i == Least(hits)
           desc == AtomsLen(text[i].attrs[2].av)
       IN IF ~within(Num(desc), descMin(policy), descMax(policy))
          THEN <<buildDiagnostic(
                   CopyRange(text, i, 1),
                   Message("Meta description is {} characters; aim for {}-{} characters.",
                           <<Num(desc), descMin(policy), descMax(policy)>>),
                   "SEO_META_DESC_LENGTH", "Information")>>
          ELSE <<>>
  ELSE <<buildDiagnostic(
           DocumentStart,
           Message("Missing meta description. Add a 50-160 character description to improve click-through rate.",
                   <<>>),
           "SEO_META_DESC_MISSING", "Warning")>>

\* /<link\s+rel=["']canonical["']\s+href=["'][^"']+["'][^>]*>/i
IsCanonical(it) ==
  IsTag(it) /\ ~it.close /\ toLowerCase(it.name) = "link" /\ Len(it.attrs) >= 2
    /\ it.attrs[1].an = "rel" /\ ~it.attrs[1].bare /\ it.attrs[1].av = <<"canonical">>
    /\ it.attrs[2].an = "href" /\ ~it.attrs[2].bare /\ it.attrs[2].av # <<>>

canonicalDiagnostics(text, policy, config) ==
  IF Truthy(requireCanonical(policy, config))
       /\ ~\E i \in Indices(text) : IsCanonical(text[i])
  THEN <<buildDiagnostic(
           DocumentStart,
           Message("Missing canonical link. Add <link rel=canonical href=...> to declare a preferred URL.",
                   <<>>),
           "SEO_CANONICAL_MISSING", "Warning")>>
  ELSE <<>>


\* the atoms a keyword can be found in
ItemAtoms(it) ==
  CASE it.k = "word" -> {it.w}
    [] it.k = "tag" ->
         {it.name} \cup {it.attrs[a].an : a \in 1..Len(it.attrs)}
           \cup UNION {{it.attrs[a].av[b] : b \in 1..Len(it.attrs[a].av)} :
                         a \in 1..Len(it.attrs)}
    [] it.k = "import" -> {it.binding} \cup {it.path[b] : b \in 1..Len(it.path)}
    [] OTHER -> {}
TextAtoms(text) == UNION {ItemAtoms(text[i]) : i \in Indices(text)}

\* the atoms and file names of the vocabulary that the keyword patterns match
\* /(product|pdp|sku|price|add[\s_-]?to[\s_-]?cart)/i and /(product|pdp|sku)/
ProductAtoms == {"product", "Products", "price", "sku", "add-to-cart"}
ProductFileNames == {"product", "sku-list"}
\* /(blog|article|news|post)/i and /(blog|article)/
ArticleAtoms == {"blog", "article", "News", "post", "postcss"}
ArticleFileNames == {"blog", "article-1"}

\* /<script\s+type=["']application\/ld\+json["']>/
IsJsonLdScript(it) ==
  IsTag(it) /\ ~it.close /\ ~it.self /\ it.name = "script" /\ Len(it.attrs) = 1
    /\ it.attrs[1].an = "type" /\ ~it.attrs[1].bare
    /\ it.attrs[1].av = <<"application", "/", "ld+json">>

jsonLdDiagnostics(text, file, policy) ==
  LET types == requireTypes(policy)
      hasJsonLd == \E i \in Indices(text) : IsJsonLdScript(text[i])
      isProductLike ==
        TextAtoms(text) \cap ProductAtoms # {} \/ file.name \in ProductFileNames
      isArticleLike ==
        TextAtoms(text) \cap ArticleAtoms # {} \/ file.name \in ArticleFileNames
  IN IF ~Truthy(lengthOf(types)) THEN <<>>
     ELSE (IF includes(types, "Product") /\ isProductLike /\ ~hasJsonLd
           THEN <<buildDiagnostic(
                    DocumentStart,
                    Message("Product page likely missing JSON-LD (Product). Consider adding product structured data.",
                            <<>>),
                    "SEO_JSONLD_PRODUCT_MISSING", "Information")>>
           ELSE <<>>)
          \o
          (IF includes(types, "Article") /\ isArticleLike /\ ~hasJsonLd
           THEN <<buildDiagnostic(
                    DocumentStart,
                    Message("Article page likely missing JSON-LD (Article). Consider adding article structured data.",
                            <<>>),
                    "SEO_JSONLD_ARTICLE_MISSING", "Information")>>
           ELSE <<>>)

\* /<meta\s+property=["']og:<x>["']\s+content=["'][^"']+["'][^>]*>/i : a meta tag whose
\* first attribute is property="og:<x>" and whose second is a content that is not empty
IsOgTag(it, prop) ==
  IsTag(it) /\ ~it.close /\ toLowerCase(it.name) = "meta" /\ Len(it.attrs) >= 2
    /\ it.attrs[1].an = "property" /\ ~it.attrs[1].bare /\ it.attrs[1].av = <<prop>>
    /\ it.attrs[2].an = "content" /\ ~it.attrs[2].bare /\ it.attrs[2].av # <<>>

\* the keys of ogTags, in insertion order
OgTagNames == <<"og:title", "og:description", "og:image", "og:url">>

ogPresent(text, prop) == \E i \in Indices(text) : IsOgTag(text[i], prop)

\* Object.entries(ogTags).filter(([_, present]) => !present).map(([tag]) => tag)
missingOg(text) ==
  LET absent(prop) == ~ogPresent(text, prop) IN SelectSeq(OgTagNames, absent)

OgMissingThreshold == 3

ogDiagnostics(text) ==
  IF Len(missingOg(text)) >= OgMissingThreshold /\ hasHeadTag(text)
  THEN <<buildDiagnostic(
           DocumentStart,
           Message("Missing {}/4 Open Graph tags: {}. These improve social media sharing.",
                   <<Num(Len(missingOg(text))), Str(JoinComma(missingOg(text)))>>),
           "SEO_OG_TAGS_MISSING", "Information")>>
  ELSE <<>>

(***************************************************************************)
(* HTML size tiers.  htmlSizeKB = bytes / 1024 is a fraction; a comparison *)
(* htmlSizeKB > k is bytes > k * 1024.                                     *)
(***************************************************************************)
BytesPerKB == 1024
SkipAboveKB == 500
HtmlLargeKB == 100
HtmlExcessiveKB == 150
HtmlApproachingKB == 10000
HtmlCriticalKB == 14000

\* Math.round(bytes / d)
RoundDiv(bytes, d) == (2 * bytes + d) \div (2 * d)

htmlSizeDiagnostics(text) ==
  LET bytes == byteLength(text)
      over(kb) == bytes > kb * BytesPerKB
  IN (IF over(HtmlLargeKB) /\ ~over(HtmlExcessiveKB)
      THEN <<buildDiagnostic(
               DocumentStart,
               Message("HTML file is {}KB. Consider code splitting or removing inline data. (Web Almanac p90: 147KB)",
                       <<Num(RoundDiv(bytes, BytesPerKB))>>),
               "PERF_HTML_SIZE_LARGE", "Warning")>>
      ELSE IF over(HtmlExcessiveKB) /\ ~over(HtmlApproachingKB)
      THEN <<buildDiagnostic(
               DocumentStart,
               Message("HTML file is {}KB - larger than 90% of websites. This impacts parsing performance.",
                       <<Num(RoundDiv(bytes, BytesPerKB))>>),
               "PERF_HTML_SIZE_EXCESSIVE", "Error")>>
      ELSE IF over(HtmlApproachingKB)
      THEN <<buildDiagnostic(
               DocumentStart,
               Message("HTML file is {}MB. Approaching Google's 15MB WRS limit. Consider pagination or dynamic loading.",
                       <<Num(RoundDiv(bytes, BytesPerKB * BytesPerKB))>>),
               "WRS_HTML_SIZE_APPROACHING_LIMIT", "Warning")>>
      ELSE <<>>)
     \o
     (IF over(HtmlCriticalKB)
      THEN <<buildDiagnostic(
               DocumentStart,
               Message("HTML file is {}MB. Google WRS will truncate at 15MB. URGENT: Reduce file size!",
                       <<Num(RoundDiv(bytes, BytesPerKB * BytesPerKB))>>),
               "WRS_HTML_SIZE_CRITICAL", "Error")>>
      ELSE <<>>)

(***************************************************************************)
(* DOM size.                                                               *)
(***************************************************************************)
AttrsHaveSlash(attrs) ==
  \E a \in 1..Len(attrs) : \E b \in 1..Len(attrs[a].av) : attrs[a].av[b] = "/"

\* /<[a-zA-Z][^/>]*>/g : a tag that is not a closing tag, is not written <.../> and
\* has no '/' between its brackets
IsOpeningTagMatch(it) ==
  IsTag(it) /\ ~it.close /\ ~it.self /\ ~AttrsHaveSlash(it.attrs)

\* (text.match(/<[a-zA-Z][^/>]*>/g) || []).length
RECURSIVE totalElements(_)
totalElements(text) ==
  IF text = <<>> THEN 0
  ELSE (IF IsOpeningTagMatch(Head(text)) THEN Head(text).n ELSE 0)
       + totalElements(Tail(text))

DomWarnAbove == 800
DomErrorAbove == 1500

domSizeDiagnostics(text) ==
  (IF totalElements(text) > DomWarnAbove
   THEN <<buildDiagnostic(
            DocumentStart,
            Message("DOM has {} elements. Google WRS recommends < 800 for optimal rendering. Consider pagination or lazy loading.",
                    <<Num(totalElements(text))>>),
            "WRS_DOM_SIZE_WARNING", "Information")>>
   ELSE <<>>)
  \o
  (IF totalElements(text) > DomErrorAbove
   THEN <<buildDiagnostic(
            DocumentStart,
            Message("DOM has {} elements. Google WRS hard limit is 1,500. Page may not render correctly in search results.",
                    <<Num(totalElements(text))>>),
            "WRS_DOM_SIZE_EXCEEDED", "Error")>>
   ELSE <<>>)


(***************************************************************************)
(* DOM depth: calculateMaxDOMDepth.                                        *)
(***************************************************************************)
selfClosingTags ==
  {"area", "base", "br", "col", "embed", "hr", "img", "input", "link", "meta",
   "param", "source", "track", "wbr"}

\* selfClosingTags.has(tagName) || fullTag.endsWith('/>')
IsSkippedTag(it) == toLowerCase(it.name) \in selfClosingTags \/ it.self

closeDepth_unfloored(d) == d - 1

\* currentDepth = Math.max(0, currentDepth - 1)
closeDepth(d) == Max(0, d - 1)
\* currentDepth++
openDepth(d) == d + 1

\* the number of matches of /<\/?([a-zA-Z][a-zA-Z0-9]*)[^>]*>/g : every tag
RECURSIVE tagCount(_)
tagCount(text) ==
  IF text = <<>> THEN 0
  ELSE (IF IsTag(Head(text)) THEN Head(text).n ELSE 0) + tagCount(Tail(text))

\* the k-th match, counted from 1
RECURSIVE nthTag(_, _)
nthTag(text, k) ==
  IF ~IsTag(Head(text)) THEN nthTag(Tail(text), k)
  ELSE IF k <= Head(text).n THEN Head(text)
  ELSE nthTag(Tail(text), k - Head(text).n)

\* the loop of calculateMaxDOMDepth run to its end, a run of n equal tags at a time:
\* n closing tags leave Math.max(0, d - n), n opening tags leave d + n
RECURSIVE depthLoop(_, _, _)
depthLoop(text, cur, best) ==
  IF text = <<>> THEN best
  ELSE LET it == Head(text) IN
       IF ~IsTag(it) \/ IsSkippedTag(it) THEN depthLoop(Tail(text), cur, best)
       ELSE IF it.close
            THEN depthLoop(Tail(text),
                           IF it.n = 1 THEN closeDepth(cur) ELSE Max(0, cur - it.n),
                           best)
            ELSE depthLoop(Tail(text),
                           IF it.n = 1 THEN openDepth(cur) ELSE cur + it.n,
                           Max(best, IF it.n = 1 THEN openDepth(cur) ELSE cur + it.n))

calculateMaxDOMDepth(text) == depthLoop(text, 0, 0)

DepthWarnAbove == 25
DepthErrorAbove == 32

domDepthDiagnostics(text) ==
  (IF calculateMaxDOMDepth(text) > DepthWarnAbove
   THEN <<buildDiagnostic(
            DocumentStart,
            Message("DOM depth is {} levels. Google WRS recommends < 32 to avoid rendering issues. Flatten your HTML structure.",
                    <<Num(calculateMaxDOMDepth(text))>>),
            "WRS_DOM_DEPTH_WARNING", "Information")>>
   ELSE <<>>)
  \o
  (IF calculateMaxDOMDepth(text) > DepthErrorAbove
   THEN <<buildDiagnostic(
            DocumentStart,
            Message("DOM depth is {} levels - exceeds Google WRS limit of 32. Googlebot may fail to render this page.",
                    <<Num(calculateMaxDOMDepth(text))>>),
            "WRS_DOM_DEPTH_EXCEEDED", "Error")>>
   ELSE <<>>)

(***************************************************************************)
(* JavaScript bundle size estimation via import analysis.                  *)
(***************************************************************************)
HeavyLibraryNames ==
  {"moment", "moment-timezone", "lodash", "jquery", "@material-ui/core", "rxjs",
   "xlsx", "chart.js", "three", "d3"}

heavySize(name) ==
  CASE name = "moment" -> 67
    [] name = "moment-timezone" -> 190
    [] name = "lodash" -> 72
    [] name = "jquery" -> 87
    [] name = "@material-ui/core" -> 350
    [] name = "rxjs" -> 166
    [] name = "xlsx" -> 800
    [] name = "chart.js" -> 150
    [] name = "three" -> 580
    [] name = "d3" -> 250

heavyAlternative(name) ==
  CASE name = "moment" -> "date-fns (2KB)"
    [] name = "moment-timezone" -> "date-fns-tz (11KB)"
    [] name = "lodash" -> "lodash-es + tree-shaking"
    [] name = "jquery" -> "vanilla JS or cash-dom (6KB)"
    [] name = "@material-ui/core" -> "@mui/material with tree-shaking"
    [] name = "rxjs" -> "rxjs + specific operators only"
    [] name = "xlsx" -> "xlsx-populate (smaller)"
    [] name = "chart.js" -> "chartist (10KB)"
    [] name = "three" -> "three + tree-shaking"
    [] name = "d3" -> "d3 + specific modules only"

\* heavyLibraries is an object literal: heavyLibraries[key] also finds what every
\* object inherits from Object.prototype
ObjectPrototypeKeys ==
  {"constructor", "toString", "toLocaleString", "valueOf", "hasOwnProperty",
   "isPrototypeOf", "propertyIsEnumerable", "__proto__", "__defineGetter__",
   "__defineSetter__", "__lookupGetter__", "__lookupSetter__"}

\* heavyLibraries[packageName]: found says whether the value is truthy; an inherited
\* member is a function or an object, truthy, with no size and no alternative
heavyLibraries(name) ==
  IF name \in HeavyLibraryNames
  THEN [found |-> TRUE, size |-> Num(heavySize(name)),
        alternative |-> Str(heavyAlternative(name))]
  ELSE IF name \in ObjectPrototypeKeys
  THEN [found |-> TRUE, size |-> Undefined, alternative |-> Undefined]
  ELSE [found |-> FALSE, size |-> Undefined, alternative |-> Undefined]

\* /import\s+.*?\s+from\s+['"]([^'"]+)['"]|require\s*\(\s*['"]([^'"]+)['"]\s*\)/g
IsImportMatch(it) ==
  it.k = "import" /\ it.path # <<>> /\ (it.form = "from" => it.binding # "")

\* importPath.startsWith('@') ? importPath.split('/').slice(0, 2).join('/')
\*                             : importPath.split('/')[0]
packageName_firstSegment(importPath) == Concat(SplitSlash(importPath, <<>>)[1])

packageName(importPath) ==
  LET segs == SplitSlash(importPath, <<>>) IN
  IF Head(importPath) = "@"
  THEN Concat(JoinSlash(SubSeq(segs, 1, IF Len(segs) < 2 THEN Len(segs) ELSE 2)))
  ELSE Concat(segs[1])

\* the while loop over the import matches: the running total and the findings
RECURSIVE importLoop(_, _, _, _)
importLoop(text, i, total, found) ==
  IF i > Len(text) THEN [total |-> total, diagnostics |-> found]
  ELSE IF ~IsImportMatch(text[i]) THEN importLoop(text, i + 1, total, found)
  ELSE LET name == packageName(text[i].path)
           lib == heavyLibraries(name)
       IN IF ~lib.found THEN importLoop(text, i + 1, total, found)
          ELSE importLoop(
                 text, i + 1, JsAdd(total, lib.size),
                 Append(found,
                   buildDiagnostic(
                     CopyRange(text, i, 1),
                     Message("Heavy dependency: {} (~{}KB). {}",
                             <<Str(name), lib.size,
                               IF Truthy(lib.alternative)
                               THEN Str("Consider " \o lib.alternative.s)
                               ELSE Str("Use tree-shaking or code splitting.")>>),
                     "WRS_HEAVY_DEPENDENCY", "Information")))

totalEstimatedBundleSize(text) == importLoop(text, 1, Num(0), <<>>).total

BundleWarnAbove == 500
BundleErrorAbove == 1000

bundleDiagnostics(text) ==
  LET total == totalEstimatedBundleSize(text) IN
  importLoop(text, 1, Num(0), <<>>).diagnostics
  \o
  (IF JsGt(total, Num(BundleWarnAbove))
   THEN <<buildDiagnostic(
            DocumentStart,
            Message("Estimated JS bundle size: ~{}KB from heavy dependencies. Google WRS recommends < 1MB total. Consider code splitting.",
                    <<total>>),
            "WRS_JS_BUNDLE_SIZE_WARNING", "Warning")>>
   ELSE <<>>)
  \o
  (IF JsGt(total, Num(BundleErrorAbove))
   THEN <<buildDiagnostic(
            DocumentStart,
            Message("Estimated JS bundle size: ~{}KB - exceeds Google WRS 1MB recommendation. This will impact crawl budget and rendering.",
                    <<total>>),
            "WRS_JS_BUNDLE_SIZE_EXCEEDED", "Error")>>
   ELSE <<>>)


(***************************************************************************)
(* Head element ordering.                                                  *)
(***************************************************************************)
\* /<head[^>]*>/i : an opening tag whose name starts with head
IsHeadOpen(it) ==
  IsTag(it) /\ ~it.close /\ toLowerCase(it.name) \in {"head", "header"}
\* /<\/head>/i
IsHeadClose(it) ==
  IsTag(it) /\ it.close /\ ~it.self /\ it.attrs = <<>> /\ toLowerCase(it.name) = "head"

\* /<head[^>]*>([\s\S]*?)<\/head>/i.exec(text); at[k] is where item k of the
\* content starts in the text: <<item, copies before it>>
headMatch(text) ==
  LET closesAfter(i) == {j \in Indices(text) : IsHeadClose(text[j]) /\ j > i}
      ok == {i \in Indices(text) : IsHeadOpen(text[i]) /\ closesAfter(i) # {}}
  IN IF ok = {} THEN NoMatch
     ELSE LET i == Least(ok)
              j == Least(closesAfter(i))
              more == text[i].n > 1
          IN [found |-> TRUE,
              content |-> (IF more THEN <<[text[i] EXCEPT !.n = text[i].n - 1]>>
                           ELSE <<>>) \o SubSeq(text, i + 1, j - 1),
              at |-> (IF more THEN <<<<i, 1>>>> ELSE <<>>)
                     \o [k \in 1..(j - 1 - i) |-> <<i + k, 0>>]]

\* /<meta\s+charset=/i
IsCharsetMeta(it) ==
  IsTag(it) /\ ~it.close /\ toLowerCase(it.name) = "meta" /\ Len(it.attrs) >= 1
    /\ it.attrs[1].an = "charset" /\ ~it.attrs[1].bare
\* /<link\s+[^>]*rel=["']stylesheet["']/i
IsStylesheetLink(it) ==
  IsTag(it) /\ ~it.close /\ toLowerCase(it.name) = "link"
    /\ \E a \in 1..Len(it.attrs) :
         it.attrs[a].an = "rel" /\ ~it.attrs[a].bare /\ it.attrs[a].av = <<"stylesheet">>
\* /<script[^>]*>/i
IsScriptOpen(it) == IsTag(it) /\ ~it.close /\ toLowerCase(it.name) = "script"

CharsetNearStart == 100

\* the first of the places of the head content that a pattern matched (0: none)
firstOf(hits) == IF hits = {} THEN 0 ELSE Least(hits)

\* the three ordering rules, given the head match m and the places of the first
\* charset meta, title, stylesheet link and script of its content
headOrderFindings(text, m, charset, title, style, script) ==
  LET index(k) == TextLen(SubSeq(m.content, 1, k - 1))
      pos(k) == positionAt(text, m.at[k][1], m.at[k][2])
      here(k) == Range(pos(k), pos(k))
  IN (IF charset # 0 /\ index(charset) > CharsetNearStart
      THEN <<buildDiagnostic(
               here(charset),
               Message("<meta charset> should be the first element in <head> to prevent re-parsing.",
                       <<>>),
               "SEO_CHARSET_ORDERING", "Warning")>>
      ELSE <<>>)
     \o
     (IF title # 0 /\ style # 0 /\ index(title) > index(style)
      THEN <<buildDiagnostic(
               here(title),
               Message("<title> should appear before stylesheets for faster discovery by search engines.",
                       <<>>),
               "SEO_TITLE_ORDERING", "Information")>>
      ELSE <<>>)
     \o
     (IF title # 0 /\ script # 0 /\ index(title) > index(script)
      THEN <<buildDiagnostic(
               here(title),
               Message("<title> should appear before blocking scripts to avoid crawl delays.",
                       <<>>),
               "SEO_TITLE_SCRIPT_ORDERING", "Information")>>
      ELSE <<>>)

headOrderIn(text, m) ==
  IF ~m.found THEN <<>>
  ELSE headOrderFindings(
         text, m,
         firstOf({k \in 1..Len(m.content) : IsCharsetMeta(m.content[k])}),
         firstOf({k \in 1..Len(m.content) : IsTitleOpen(m.content[k])}),
         firstOf({k \in 1..Len(m.content) : IsStylesheetLink(m.content[k])}),
         firstOf({k \in 1..Len(m.content) : IsScriptOpen(m.content[k])}))

headOrderDiagnostics(text) == headOrderIn(text, headMatch(text))

(***************************************************************************)
(* Images, fonts, scripts, resource hints.                                 *)
(***************************************************************************)
\* \b<word>\b somewhere in the attribute text: an attribute of that name, a data-
\* attribute ending in it, or that word in a value
AttrNamed(it, w) ==
  \E a \in 1..Len(it.attrs) : it.attrs[a].an \in {w, "data-" \o w}
WordInTag(it, w) ==
  AttrNamed(it, w)
    \/ \E a \in 1..Len(it.attrs) : \E b \in 1..Len(it.attrs[a].av) : it.attrs[a].av[b] = w
\* \b<name>\s*= : such an attribute, given a value
AttrAssigned(it, w) ==
  \E a \in 1..Len(it.attrs) : it.attrs[a].an \in {w, "data-" \o w} /\ ~it.attrs[a].bare
\* \b<name>\s*=\s*["'] : such an attribute, its value in quotes
AttrQuoted(it, w) ==
  \E a \in 1..Len(it.attrs) : it.attrs[a].an \in {w, "data-" \o w} /\ IsQuoted(it.attrs[a])

\* /<img\s+([^>]*?)>/gi
IsImgMatch(it) ==
  IsTag(it) /\ ~it.close /\ toLowerCase(it.name) = "img" /\ it.attrs # <<>>

imgFindings(text, i, c) ==
  LET it == text[i]
      hasAlt == AttrQuoted(it, "alt")
      hasWidth == AttrAssigned(it, "width")
      hasHeight == AttrAssigned(it, "height")
      hasLoading ==
        \E a \in 1..Len(it.attrs) :
          it.attrs[a].an \in {"loading", "data-loading"} /\ IsQuoted(it.attrs[a])
            /\ it.attrs[a].av \in {<<"lazy">>, <<"eager">>, <<"LAZY">>, <<"EAGER">>}
      range == CopyRange(text, i, c)
  IN IF ~IsImgMatch(it) THEN <<>>
     ELSE (IF ~hasAlt
           THEN <<buildDiagnostic(
                    range,
                    Message("Image missing alt attribute. Add a meaningful alt for accessibility and SEO.",
                            <<>>),
                    "SEO_IMG_ALT_MISSING", "Warning")>>
           ELSE <<>>)
          \o
          (IF ~hasWidth \/ ~hasHeight
           THEN <<buildDiagnostic(
                    range,
                    Message("Image missing width/height attributes. Explicit dimensions prevent layout shift.",
                            <<>>),
                    "PERF_IMG_DIMENSIONS_MISSING", "Warning")>>
           ELSE <<>>)
          \o
          (IF ~hasLoading
           THEN <<buildDiagnostic(
                    range,
                    Message("Consider adding loading=lazy to defer off-screen images.", <<>>),
                    "PERF_IMG_LOADING_MISSING", "Information")>>
           ELSE <<>>)

\* /<Image\s+([^>]*?)\/?>/gi
IsNextImgMatch(it) ==
  IsTag(it) /\ ~it.close /\ toLowerCase(it.name) = "image" /\ it.attrs # <<>>

\* /(hero|banner|masthead)/i on the atoms of the vocabulary
LcpAtoms == {"hero", "hero2", "Banner", "masthead"}

nextImgFindings(text, i, c) ==
  LET it == text[i]
      hasSizes == AttrAssigned(it, "sizes")
      hasPriority == WordInTag(it, "priority")
      srcMatch == {a \in 1..Len(it.attrs) :
                     /\ it.attrs[a].an \in {"src", "data-src"}
                     /\ IsQuoted(it.attrs[a]) /\ it.attrs[a].av # <<>>}
      src == IF srcMatch # {} THEN it.attrs[Least(srcMatch)].av ELSE <<>>
      likelyLcp ==
        (\E b \in 1..Len(src) : src[b] \in LcpAtoms) \/ WordInTag(it, "priority")
      range == CopyRange(text, i, c)
  IN IF ~IsNextImgMatch(it) THEN <<>>
     ELSE (IF ~hasSizes
           THEN <<buildDiagnostic(
                    range,
                    Message("next/image missing sizes attribute. Without it, the browser may fetch incorrect resolutions.",
                            <<>>),
                    "PERF_NEXTIMG_SIZES_MISSING", "Warning")>>
           ELSE <<>>)
          \o
          (IF likelyLcp /\ ~hasPriority
           THEN <<buildDiagnostic(
                    range,
                    Message("Likely LCP image missing priority. Add priority to improve initial load.",
                            <<>>),
                    "PERF_NEXTIMG_PRIORITY_MISSING", "Information")>>
           ELSE <<>>)

\* /@font-face\s*{[\s\S]*?}/gi and /font-display\s*:\s*swap/
fontFindings(text, i, c) ==
  IF text[i].k = "fontface" /\ text[i].display # "swap"
  THEN <<buildDiagnostic(
           CopyRange(text, i, c),
           Message("Custom font is missing font-display: swap. This can block rendering.",
                   <<>>),
           "PERF_FONT_DISPLAY_MISSING", "Warning")>>
  ELSE <<>>

\* /<link\s+[^>]*rel=["']preload["'][^>]*as=["']font["'][^>]*>/gi
IsFontPreload(it) ==
  IsTag(it) /\ ~it.close /\ toLowerCase(it.name) = "link"
    /\ \E a \in 1..Len(it.attrs) : \E b \in 1..Len(it.attrs) :
         /\ a < b
         /\ it.attrs[a].an = "rel" /\ ~it.attrs[a].bare /\ it.attrs[a].av = <<"preload">>
         /\ it.attrs[b].an = "as" /\ ~it.attrs[b].bare /\ it.attrs[b].av = <<"font">>

\* the number of matches of the preload pattern
RECURSIVE fontPreloadCount(_)
fontPreloadCount(text) ==
  IF text = <<>> THEN 0
  ELSE (IF IsFontPreload(Head(text)) THEN Head(text).n ELSE 0)
       + fontPreloadCount(Tail(text))

FontPreloadsAbove == 4

fontPreloadDiagnostics(text) ==
  IF fontPreloadCount(text) > FontPreloadsAbove
  THEN <<buildDiagnostic(
           DocumentStart,
           Message("Too many font preloads ({}). Limit preloaded fonts to critical subsets.",
                   <<Num(fontPreloadCount(text))>>),
           "PERF_FONT_PRELOAD_EXCESS", "Information")>>
  ELSE <<>>

\* /<script[^>]+src=["']([^"']+)["'][^>]*>/gi
IsExternalScript(it) ==
  IsTag(it) /\ ~it.close /\ toLowerCase(it.name) = "script"
    /\ \E a \in 1..Len(it.attrs) :
         it.attrs[a].an \in {"src", "data-src"} /\ IsQuoted(it.attrs[a])
           /\ it.attrs[a].av # <<>>

scriptSrc(it) ==
  LET a == Least({b \in 1..Len(it.attrs) :
                    it.attrs[b].an \in {"src", "data-src"} /\ IsQuoted(it.attrs[b])
                      /\ it.attrs[b].av # <<>>})
  IN it.attrs[a].av

scriptFindings(text, i, c) ==
  LET it == text[i]
      hasAsyncOrDefer == WordInTag(it, "async") \/ WordInTag(it, "defer")
  IN IF IsExternalScript(it) /\ ~hasAsyncOrDefer
     THEN <<buildDiagnostic(
              CopyRange(text, i, c),
              Message("Script tag without async or defer. This can block rendering.",
                      <<>>),
              "PERF_SCRIPT_BLOCKING", "Warning")>>
     ELSE <<>>

\* scriptCount++ for every match
RECURSIVE scriptCount(_)
scriptCount(text) ==
  IF text = <<>> THEN 0
  ELSE (IF IsExternalScript(Head(text)) THEN Head(text).n ELSE 0)
       + scriptCount(Tail(text))

scriptCountDiagnostics(text, policy, config) ==
  IF JsGt(Num(scriptCount(text)), maxTP(policy, config))
  THEN <<buildDiagnostic(
           DocumentStart,
           Message("Document contains {} script tags. Budget is {}.",
                   <<Num(scriptCount(text)), maxTP(policy, config)>>),
           "PERF_SCRIPT_COUNT_EXCEEDED", "Warning")>>
  ELSE <<>>

\* src.startsWith('http') and new URL(src).origin, for the URLs of the vocabulary
IsHttpUrl(av) ==
  Len(av) >= 4 /\ av[1] \in {"http:", "https:"} /\ av[2] = "/" /\ av[3] = "/"
origin(av) == Concat(SubSeq(av, 1, 4))

\* /<link\s+[^>]*rel=["']stylesheet["'][^>]*href=["']([^"']+)["']/gi
stylesheetHref(it) ==
  LET hits == {b \in 1..Len(it.attrs) :
                 /\ it.attrs[b].an \in {"href", "data-href"} /\ ~it.attrs[b].bare
                 /\ it.attrs[b].av # <<>>
                 /\ \E a \in 1..(b - 1) :
                      it.attrs[a].an = "rel" /\ ~it.attrs[a].bare
                        /\ it.attrs[a].av = <<"stylesheet">>}
  IN IF IsTag(it) /\ ~it.close /\ toLowerCase(it.name) = "link" /\ hits # {}
     THEN it.attrs[Least(hits)].av ELSE <<>>

\* the URL an item adds to externalDomains in the script loop ("script") or in the
\* stylesheet loop ("stylesheet")
urlOf(loop, it) ==
  IF loop = "script" THEN (IF IsExternalScript(it) THEN scriptSrc(it) ELSE <<>>)
  ELSE stylesheetHref(it)

\* externalDomains, a Set, in insertion order: the scripts' origins, then the
\* stylesheets'
RECURSIVE originsOf(_, _, _)
originsOf(text, loop, seen) ==
  IF text = <<>> THEN seen
  ELSE LET u == urlOf(loop, Head(text))
           o == origin(u)
       IN originsOf(Tail(text), loop,
                    IF IsHttpUrl(u) /\ ~\E k \in 1..Len(seen) : seen[k] = o
                    THEN Append(seen, o) ELSE seen)

externalDomains(text) ==
  originsOf(text, "stylesheet", originsOf(text, "script", <<>>))

\* /<link\s+[^>]*rel=["']preconnect["']/i
IsPreconnect(it) ==
  IsTag(it) /\ ~it.close /\ toLowerCase(it.name) = "link"
    /\ \E a \in 1..Len(it.attrs) :
         it.attrs[a].an = "rel" /\ ~it.attrs[a].bare /\ it.attrs[a].av = <<"preconnect">>

PreconnectListed == 3

preconnectDiagnostics(text) ==
  LET domains == externalDomains(text)
      top == SubSeq(domains, 1,
                    IF Len(domains) < PreconnectListed THEN Len(domains)
                    ELSE PreconnectListed)
  IN IF Len(domains) > 0 /\ ~\E i \in Indices(text) : IsPreconnect(text[i])
     THEN <<buildDiagnostic(
              DocumentStart,
              Message("Consider adding <link rel=preconnect> for external domains: {}. This reduces DNS/TLS overhead.",
                      <<Str(JoinComma(top))>>),
              "PERF_PRECONNECT_MISSING", "Information")>>
     ELSE <<>>


\* the findings of one of the while loops over the matches of a /g pattern: those of
\* every copy of every item, in text order
loopFindings(loop, text, i, c) ==
  CASE loop = "img" -> imgFindings(text, i, c)
    [] loop = "nextImg" -> nextImgFindings(text, i, c)
    [] loop = "font" -> fontFindings(text, i, c)
    [] loop = "script" -> scriptFindings(text, i, c)

\* whether the pattern of the loop matches the copies of an item
loopMatches(loop, it) ==
  CASE loop = "img" -> IsImgMatch(it)
    [] loop = "nextImg" -> IsNextImgMatch(it)
    [] loop = "font" -> it.k = "fontface"
    [] loop = "script" -> IsExternalScript(it)

RECURSIVE perCopy(_, _, _, _)
perCopy(loop, text, i, c) ==
  IF i > Len(text) THEN <<>>
  ELSE IF c > text[i].n \/ ~loopMatches(loop, text[i]) THEN perCopy(loop, text, i + 1, 1)
  ELSE loopFindings(loop, text, i, c) \o perCopy(loop, text, i, c + 1)


(***************************************************************************)
(* scanDocument.                                                           *)
(***************************************************************************)
keptDiagnostics(published) == published

\* const diagnostics: vscode.Diagnostic[] = []; published is what the collection holds
emptyDiagnostics(published) == <<>>

\* the detectors, in the order the handler runs them
detect(text, file, policy, config) ==
  titleDiagnostics(text, file, policy)
    \o metaDescDiagnostics(text, policy)
    \o canonicalDiagnostics(text, policy, config)
    \o jsonLdDiagnostics(text, file, policy)
    \o ogDiagnostics(text)
    \o htmlSizeDiagnostics(text)
    \o domSizeDiagnostics(text)
    \o domDepthDiagnostics(text)
    \o headOrderDiagnostics(text)
    \o perCopy("img", text, 1, 1)
    \o perCopy("nextImg", text, 1, 1)
    \o perCopy("font", text, 1, 1)
    \o fontPreloadDiagnostics(text)
    \o bundleDiagnostics(text)
    \o perCopy("script", text, 1, 1)
    \o scriptCountDiagnostics(text, policy, config)
    \o preconnectDiagnostics(text)

isSkipped_fromLimit(file, text) ==
  ~isSupportedFile(file) \/ byteLength(text) >= SkipAboveKB * BytesPerKB

\* the two early returns
isSkipped(file, text) ==
  ~isSupportedFile(file) \/ byteLength(text) > SkipAboveKB * BytesPerKB

NoEntry == [set |-> FALSE, diagnostics |-> <<>>]
earlyReturn_clears(published, f) == [published EXCEPT ![f] = NoEntry]
\* return before collection.set: what is published stays as it is
earlyReturn(published, f) == published
NoProbe == [watched |-> FALSE]
Inputs(f, text, file, config) ==
  [watched |-> TRUE, doc |-> f, text |-> text, policyFile |-> file, settings |-> config]
NoRuns == [runs |-> 0, diagnostics |-> <<>>]
\* the scans of the probe that are counted
MaxProbeRuns == 2
NeverScanned ==
  [ran |-> "never", text |-> <<>>, policyFile |-> [state |-> "absent"],
   settings |-> [requireCanonical |-> TRUE, maxThirdPartyScriptsPerPage |-> 6]]

\* the TypeErrors a policy value raises in the detectors: policy.seo read off
\* null (line 138), requireTypes.includes called on a value without it (line 232)
detectThrows(policy) == policy = Null \/ includesThrows(requireTypes(policy))

\* scanDocument(doc): collection.set(doc.uri, diagnostics) unless it returned early
\* or an exception left it before that line
scanDocument(f) ==
  LET text == docText[f]
      threw == ~isSkipped(f, text) /\ detectThrows(readPolicy(policyFile))
      skipped == isSkipped(f, text) \/ threw
      diagnostics ==
        emptyDiagnostics(collection[f].diagnostics)
          \o detect(text, f, readPolicy(policyFile), settings)
  IN /\ collection' =
          IF skipped THEN earlyReturn(collection, f)
          ELSE [collection EXCEPT ![f] = [set |-> TRUE, diagnostics |-> diagnostics]]
     /\ lastScan' =
          [lastScan EXCEPT
             ![f] = [ran |-> IF threw THEN "threw"
                             ELSE IF skipped THEN "skipped" ELSE "published",
                     text |-> text, policyFile |-> policyFile, settings |-> settings]]
     /\ probeLog' =
          IF skipped \/ probe # Inputs(f, text, policyFile, settings) THEN probeLog
          ELSE [runs |-> IF probeLog.runs < MaxProbeRuns THEN probeLog.runs + 1
                         ELSE probeLog.runs,
                diagnostics |-> IF probeLog.runs = 0 THEN collection'[f].diagnostics
                                ELSE probeLog.diagnostics]

(***************************************************************************)
(* The event subscriptions.                                                *)
(***************************************************************************)
DebounceMs == 300
NoTimer == [set |-> FALSE, pending |-> FALSE, remaining |-> 0]
TimerFor_earlier(f) ==
  IF debounceTimer.pending THEN [debounceTimer EXCEPT !.remaining = DebounceMs]
  ELSE [set |-> TRUE, pending |-> TRUE, doc |-> f, remaining |-> DebounceMs]
TimerFor_immediate(f) == [set |-> TRUE, pending |-> TRUE, doc |-> f, remaining |-> 0]
\* setTimeout(() => scanDocument(e.document), 300): remaining counts the ms to go
TimerFor(f) == [set |-> TRUE, pending |-> TRUE, doc |-> f, remaining |-> DebounceMs]

\* the bursts of change events are followed in the corpus made for them
\* (a burst: the change events that follow one another while a timer is pending)
NoBurst == [events |-> 0, gap |-> 0, quiet |-> 0, scans |-> 0]
BurstWatched == corpus.name \in {"debounce", "shared"}
\* the most change events of a burst that are counted
MaxBurstEvents == 2
Min(a, b) == IF a <= b THEN a ELSE b

\* vscode.workspace.onDidOpenTextDocument(scanDocument)
onDidOpenTextDocument(f) ==
  /\ scanDocument(f)
  /\ UNCHANGED <<corpus, docText, policyFile, settings, debounceTimer, probe, burst, batch,
                 depthVars>>

\* vscode.workspace.onDidSaveTextDocument(scanDocument)
onDidSaveTextDocument(f) ==
  /\ scanDocument(f)
  /\ UNCHANGED <<corpus, docText, policyFile, settings, debounceTimer, probe, burst, batch,
                 depthVars>>

\* the editor changes the text of f to t and raises onDidChangeTextDocument:
\* clearTimeout(debounceTimer); debounceTimer = setTimeout(..., 300)
onDidChangeTextDocument(f, t) ==
  /\ t # docText[f]
  /\ docText' = [docText EXCEPT ![f] = t]
  /\ debounceTimer' = TimerFor(f)
  /\ burst' = IF BurstWatched
              THEN IF debounceTimer.pending
                   THEN [events |-> Min(burst.events + 1, MaxBurstEvents),
                         gap |-> Max(burst.gap, burst.quiet), quiet |-> 0, scans |-> 0]
                   ELSE [events |-> 1, gap |-> 0, quiet |-> 0, scans |-> 0]
              ELSE burst
  /\ UNCHANGED <<corpus, policyFile, settings, collection, lastScan, probe, probeLog,
                 batch, depthVars>>

\* the 300 ms have passed: scanDocument(e.document)
TimerFires ==
  /\ debounceTimer.set /\ debounceTimer.pending /\ debounceTimer.remaining = 0
  /\ scanDocument(debounceTimer.doc)
  /\ debounceTimer' = [debounceTimer EXCEPT !.pending = FALSE]
  /\ burst' = IF BurstWatched THEN [burst EXCEPT !.scans = @ + 1] ELSE burst
  /\ UNCHANGED <<corpus, docText, policyFile, settings, probe, batch, depthVars>>

\* d ms pass while the timer runs; a timer that is due fires before more time passes
Tick(d) ==
  /\ debounceTimer.pending /\ d > 0 /\ d <= debounceTimer.remaining
  /\ debounceTimer' = [debounceTimer EXCEPT !.remaining = @ - d]
  /\ burst' = IF BurstWatched THEN [burst EXCEPT !.quiet = Min(@ + d, DebounceMs)] ELSE burst
  /\ UNCHANGED <<corpus, docText, policyFile, settings, collection, lastScan, probe, probeLog,
                 batch, depthVars>>


(***************************************************************************)
(* The command kanmi.scan.  Its callback is an async function: it runs     *)
(* without interruption from one await to the next.  It waits for          *)
(* findFiles and for each openTextDocument; scanDocument contains no       *)
(* await, so the scan of file i, i++ and the head of the next iteration    *)
(* run in one piece when the document has been opened.                     *)
(***************************************************************************)
NoBatch ==
  [pc |-> "idle", files |-> <<>>, i |-> 0, token |-> FALSE, shown |-> {}, opened |-> {}]
BatchRunning == batch.pc \in {"finding", "opening"}

\* '**/*.{js,jsx,ts,tsx,html}'
matchesGlob(f) == f.ext \in {"js", "jsx", "ts", "tsx", "html"}
\* the lists findFiles can return: the matching files of the workspace, in any order
findFiles(files) ==
  LET found == {f \in files : matchesGlob(f)} IN
  {o \in [1..Cardinality(found) -> found] : \A a, b \in DOMAIN o : o[a] = o[b] => a = b}

CancelledMessage == Message("Kanmi scan cancelled.", <<>>)
ScannedMessage(n) == Message("Kanmi Levers Guard: Scanned {} files.", <<Num(n)>>)

loopHead_unchecked(b) ==
  IF b.i < Len(b.files)
  THEN [b EXCEPT !.pc = "opening", !.opened = @ \cup {b.i}]
  ELSE [b EXCEPT !.pc = "completed", !.shown = @ \cup {ScannedMessage(Len(b.files))}]

\* the head of the for loop with index b.i, up to the next await or return:
\* the token is looked at, then openTextDocument(files[i]) is called
loopHead(b) ==
  IF b.i < Len(b.files)
  THEN IF b.token
       THEN [b EXCEPT !.pc = "cancelled", !.shown = @ \cup {CancelledMessage}]
       ELSE [b EXCEPT !.pc = "opening", !.opened = @ \cup {b.i}]
  ELSE [b EXCEPT !.pc = "completed", !.shown = @ \cup {ScannedMessage(Len(b.files))}]

\* the user runs the command: withProgress shows the notification with a fresh
\* token and the callback calls findFiles
kanmiScan ==
  /\ ~BatchRunning
  /\ batch' = [NoBatch EXCEPT !.pc = "finding"]
  /\ UNCHANGED <<corpus, docText, policyFile, settings, collection, debounceTimer, lastScan,
                 probe, probeLog, burst, depthVars>>

\* findFiles resolves; the loop starts at i = 0
findFilesReturns(found) ==
  /\ batch.pc = "finding"
  /\ batch' = loopHead([batch EXCEPT !.files = found, !.i = 0])
  /\ UNCHANGED <<corpus, docText, policyFile, settings, collection, debounceTimer, lastScan,
                 probe, probeLog, burst, depthVars>>

\* openTextDocument(files[i]) resolves: scanDocument(doc), then the next iteration;
\* an exception of scanDocument leaves the callback, nothing catches it
openReturns ==
  /\ batch.pc = "opening"
  /\ scanDocument(batch.files[batch.i + 1])
  /\ batch' = IF lastScan'[batch.files[batch.i + 1]].ran = "threw"
              THEN [batch EXCEPT !.pc = "failed"]
              ELSE loopHead([batch EXCEPT !.i = @ + 1])
  /\ UNCHANGED <<corpus, docText, policyFile, settings, debounceTimer, probe, burst,
                 depthVars>>

\* openTextDocument(files[i]) rejects (the file is gone, or is no text): the
\* exception leaves the callback
openFails ==
  /\ batch.pc = "opening"
  /\ batch' = [batch EXCEPT !.pc = "failed"]
  /\ UNCHANGED <<corpus, docText, policyFile, settings, collection, debounceTimer, lastScan,
                 probe, probeLog, burst, depthVars>>

\* the user presses Cancel on the notification
cancelRequested ==
  /\ BatchRunning /\ ~batch.token
  /\ batch' = [batch EXCEPT !.token = TRUE]
  /\ UNCHANGED <<corpus, docText, policyFile, settings, collection, debounceTimer, lastScan,
                 probe, probeLog, burst, depthVars>>

(***************************************************************************)
(* The environment: files, texts, policy files and configurations.         *)
(***************************************************************************)
File(name, ext) == [name |-> name, ext |-> ext]
PageHtml == File("page", "html")
AppJs == File("app", "js")
CompTsx == File("comp", "tsx")
ViewJsx == File("view", "jsx")
StyleCss == File("style", "css")

\* a run, left out when it has no copy
Run(it) == IF it.n = 0 THEN <<>> ELSE <<it>>

PolicyAbsent == [state |-> "absent"]
PolicyInvalid == [state |-> "invalid"]
\* a directory of that name, or a file the process may not read
PolicyUnreadable == [state |-> "unreadable"]
\* a file whose text parses to the value v
PolicyJson(v) == [state |-> "json", value |-> v]
\* { "seo": { ...fields } }
SeoPolicy(fields) ==
  [state |-> "json",
   value |-> [seo |-> [present |-> TRUE] @@ fields, perf |-> NoSection]]

DefaultConfig == [requireCanonical |-> TRUE, maxThirdPartyScriptsPerPage |-> 6]
LaxConfig == [requireCanonical |-> FALSE, maxThirdPartyScriptsPerPage |-> 6]

\* ---- titles
\* the most blanks around a title
MaxPad == 1

\* <head><title> a blanks, b characters, c blanks </title></head>
TitleDoc(a, b, c) ==
  <<Open("head"), Open("title")>>
    \o Run(Spaces(a)) \o Run(Chars(b)) \o Run(Spaces(c))
    \o <<Close("title"), Close("head")>>

TitleBodies == {2, 3, 5, 6, 29, 30, 60, 61}

ShortTitleDoc == <<Open("head"), Open("title"), Word("Short"), Close("title"), Close("head")>>
UpperTitleDoc == <<Open("HEAD"), Open("TITLE"), Chars(29), Close("TITLE"), Close("HEAD")>>
TwoTitlesDoc ==
  <<Open("head"), Open("title"), Chars(2), Close("title"),
    Open("title"), Chars(61), Close("title"), Close("head")>>
LinesTitleDoc ==
  <<Open("head"), NewLine, Open("title"), NewLine, Spaces(2), Chars(30), NewLine,
    Close("title"), NewLine, Close("head")>>
NoTitleDoc == <<Open("head"), Close("head")>>
UnclosedTitleDoc == <<Open("head"), Open("title"), Chars(5), Close("head")>>

TitleTexts ==
  {TitleDoc(a, b, a) : a \in {0, MaxPad}, b \in TitleBodies}
    \cup {ShortTitleDoc, UpperTitleDoc, TwoTitlesDoc, LinesTitleDoc, NoTitleDoc,
          UnclosedTitleDoc}

TitlePolicies ==
  {PolicyAbsent,
   SeoPolicy([titleMin |-> Num(3), titleMax |-> Num(5)]),
   SeoPolicy([titleMin |-> Num(6)])}

\* ---- components
NextHeadImport == ImportFrom("Head", "'", <<"next", "/", "head">>)
NextHeadRequire == Require("'", <<"next", "/", "head">>)
FromNextImport == ImportFrom("dynamic", "\"", <<"next">>)
ReactImport == ImportFrom("React", "'", <<"react">>)
\* a statement, a line feed, <head></head>
Component(statement) == <<statement, NewLine, Open("head"), Close("head")>>

FrameworkTexts ==
  {NoTitleDoc, ShortTitleDoc, <<NextHeadImport, NewLine, Open("div"), Close("div")>>,
   Component(NextHeadImport), Component(NextHeadRequire), Component(FromNextImport),
   Component(ReactImport)}

FrameworkFiles == {PageHtml, AppJs, CompTsx, ViewJsx, StyleCss}

\* ---- imports
MaterialButton == <<"@", "material-ui", "/", "core", "/", "Button">>
MaterialIcons == <<"@", "material-ui", "/", "icons">>
LodashMap == <<"lodash", "/", "map">>
ThreeExamples == <<"three", "/", "examples", "/", "jsm">>

RECURSIVE ImportLines(_)
ImportLines(paths) ==
  IF paths = <<>> THEN <<>>
  ELSE <<ImportFrom("x", "'", Head(paths)), NewLine>> \o ImportLines(Tail(paths))

\* import moment, lodash, jquery, chart.js, three and d3
SixPackages == <<<<"moment">>, <<"lodash">>, <<"jquery">>, <<"chart.js">>, <<"three">>, <<"d3">>>>
SixPackDoc == ImportLines(SixPackages)
RequireDoc == <<Require("'", <<"xlsx">>), NewLine, Require("\"", <<"three">>), NewLine>>
InheritedDoc == ImportLines(<<<<"xlsx">>, <<"three">>, <<"constructor">>>>)

ImportPathLists ==
  {SixPackages,
   <<MaterialButton>>, <<LodashMap>>, <<MaterialIcons>>, <<ThreeExamples>>,
   <<MaterialButton, <<"chart.js">>>>,
   <<MaterialButton, <<"rxjs">>>>,
   <<<<"xlsx">>, <<"three">>>>,
   <<<<"d3">>, <<"d3">>, <<"d3">>, <<"d3">>>>,
   <<<<"xlsx">>, <<"chart.js">>, <<"moment">>>>,
   <<<<"constructor">>>>, <<<<"react">>>>, <<<<"d3-array">>>>,
   <<<<".", "/", "three">>>>, <<<<"@", "mui">>>>, <<<<"/", "lodash">>>>}

ImportTexts == {ImportLines(l) : l \in ImportPathLists} \cup {RequireDoc, InheritedDoc}

\* ---- Open Graph
OgMeta(prop) == OpenWith("meta", <<Attr("property", <<prop>>), Attr("content", <<"x">>)>>)
\* <open> the og tags of present, in the order of OgTagNames </head>
OgDoc(open, present) ==
  LET in(prop) == prop \in present
      listed == SelectSeq(OgTagNames, in)
  IN <<open>> \o [i \in 1..Len(listed) |-> OgMeta(listed[i])] \o <<Close("head")>>

OgNames == {OgTagNames[i] : i \in 1..Len(OgTagNames)}
\* <head prefix="og: https://ogp.me/ns#">
HeadWithPrefix ==
  OpenWith("head", <<Attr("prefix", <<"og:", " ", "https:", "/", "/", "ogp.me", "/", "ns#">>)>>)

OgTexts ==
  {OgDoc(Open("head"), present) : present \in SUBSET OgNames}
    \cup {OgDoc(HeadWithPrefix, {}), OgDoc(HeadWithPrefix, {"og:title"}),
          OgDoc(HeadWithPrefix, {"og:title", "og:image"}),
          OgDoc(Open("HEAD"), {"og:url"}), OgDoc(Open("body"), {})}

\* ---- element counts
DivDoc(n) == <<TagRun(FALSE, "div", <<>>, FALSE, n)>>
\* n copies of <a href="/p">
LinkDoc(n) == <<TagRun(FALSE, "a", <<Attr("href", <<"/", "p">>)>>, FALSE, n)>>
NestedDoc(n) == <<TagRun(FALSE, "div", <<>>, FALSE, n), TagRun(TRUE, "div", <<>>, FALSE, n)>>
\* n copies of <br>
BreaksDoc(n) == <<TagRun(FALSE, "br", <<>>, FALSE, n)>>
\* <div><br><img src="a.png"><p class="x"></p><hr/><a href="/p"></a></div>
MixedDoc ==
  <<Open("div"), Open("br"), OpenWith("img", <<Attr("src", <<"a.png">>)>>),
    OpenWith("p", <<Attr("class", <<"x">>)>>), Close("p"), SelfClosing("hr", <<>>),
    OpenWith("a", <<Attr("href", <<"/", "p">>)>>), Close("a"), Close("div")>>

DomTexts ==
  {DivDoc(n) : n \in {DomWarnAbove, DomWarnAbove + 1, DomErrorAbove, DomErrorAbove + 1, 1600}}
    \cup {LinkDoc(1600), NestedDoc(DomWarnAbove), NestedDoc(1600)}
    \cup {BreaksDoc(DomWarnAbove + 1), MixedDoc}

\* ---- sizes
\* <html> and inert characters, bytes bytes in all
SizeDoc(bytes) == <<Open("html"), Chars(bytes - 6)>>
KB(n) == n * BytesPerKB
\* 14.5MB
FourteenAndAHalfMB == (29 * KB(BytesPerKB)) \div 2

\* <html> and two-byte characters: 256004 characters, 512002 bytes
WideDoc == <<Open("html"), Wide(KB(SkipAboveKB) \div 2 - 2)>>

SizeTexts ==
  {SizeDoc(b) : b \in {KB(HtmlLargeKB), KB(HtmlLargeKB) + 1, KB(HtmlExcessiveKB) + 1,
                       KB(SkipAboveKB), KB(SkipAboveKB) + 1, KB(HtmlApproachingKB) + 1,
                       FourteenAndAHalfMB}}
    \cup {WideDoc}

\* ---- ranges
EmptyDoc == <<>>
\* a line feed, then <head></head>
BlankFirstLineDoc == <<NewLine, Open("head"), Close("head")>>
ImgDoc ==
  <<Open("body"), NewLine, Spaces(2), OpenWith("img", <<Attr("src", <<"a.png">>)>>), NewLine,
    Close("body")>>
RangeTexts ==
  {EmptyDoc, BlankFirstLineDoc, ImgDoc, ShortTitleDoc, LinesTitleDoc, <<Chars(1)>>}

\* ---- policy fields
\* { "perf": { ...fields } }
PerfPolicy(fields) ==
  [state |-> "json",
   value |-> [seo |-> NoSection, perf |-> [present |-> TRUE] @@ fields]]
\* tens of characters
Filler(tens) == [k \in 1..tens |-> "0123456789"]
\* a page with a title of t characters, a description of d tens of characters,
\* n deferred external scripts and the word price
FieldsDoc(t, d, n) ==
  <<Open("head"), Open("title"), Chars(t), Close("title"),
    OpenWith("meta", <<Attr("name", <<"description">>), Attr("content", Filler(d))>>),
    TagRun(FALSE, "script", <<Attr("src", <<"a.js">>), BareAttr("defer")>>, FALSE, n),
    Close("head"), Word("price")>>
FieldTexts == {FieldsDoc(40, 10, 7), FieldsDoc(5, 2, 3)}
WellTypedPolicies ==
  {PolicyAbsent,
   SeoPolicy([titleMin |-> Num(3), titleMax |-> Num(5)]),
   SeoPolicy([titleMin |-> Null, requireCanonical |-> Bool(FALSE)]),
   SeoPolicy([requireJsonLdFor |-> Arr(<<"Product">>)]),
   PerfPolicy([maxThirdPartyScriptsPerPage |-> Num(2)])}
WrongTypedPolicies ==
  {SeoPolicy([titleMin |-> Str("thirty"), titleMax |-> Num(50)]),
   SeoPolicy([titleMax |-> Str("5")]),
   SeoPolicy([metaDescriptionMin |-> Str("fifty")]),
   SeoPolicy([metaDescriptionMax |-> Bool(TRUE)]),
   SeoPolicy([requireCanonical |-> Num(0)]),
   SeoPolicy([requireJsonLdFor |-> Str("Product")]),
   PerfPolicy([maxThirdPartyScriptsPerPage |-> Str("many")])}
FieldPolicies == WellTypedPolicies \cup WrongTypedPolicies

\* ---- states of the policy file
\* no file, a directory, text that is no JSON, and the JSON texts null, 42,
\* "strict", [], {"seo": null} and {"seo": {"requireJsonLdFor": {"length": 1}}}
BrokenPolicies ==
  {PolicyAbsent, PolicyUnreadable, PolicyInvalid,
   PolicyJson(Null), PolicyJson(Num(42)), PolicyJson(Str("strict")), PolicyJson(Arr(<<>>)),
   PolicyJson(EmptyPolicy), SeoPolicy([requireJsonLdFor |-> ArrayLike(1)])}
BrokenTexts == {ShortTitleDoc, NoTitleDoc, FieldsDoc(40, 10, 7)}

\* ---- the workspace scan
BatchTexts == {ShortTitleDoc, NoTitleDoc}
BatchPolicies == {PolicyAbsent, PolicyJson(Null)}

\* ---- bursts of change events
DebounceTexts == {NoTitleDoc, ShortTitleDoc, TwoTitlesDoc}

\* ---- scripts
Script(attrs) == OpenWith("script", attrs)
LoaderUrl == <<"/", "js", "/", "async", "/", "loader.js">>
CdnDeferUrl == <<"https:", "/", "/", "cdn.example.com", "/", "defer", "/", "x.js">>
\* one script per line, each closed
RECURSIVE ScriptLines(_)
ScriptLines(tags) ==
  IF tags = <<>> THEN <<>>
  ELSE <<Head(tags), Close("script"), NewLine>> \o ScriptLines(Tail(tags))
ScriptTags ==
  {<<Script(<<Attr("src", <<"a.js">>)>>)>>,
   <<Script(<<Attr("src", <<"a.js">>), BareAttr("async")>>)>>,
   <<Script(<<BareAttr("defer"), Attr("src", <<"a.js">>)>>)>>,
   <<Script(<<Attr("src", LoaderUrl)>>)>>,
   <<Script(<<Attr("src", CdnDeferUrl)>>)>>,
   <<Script(<<Attr("data-src", <<"a.js">>)>>)>>,
   <<Script(<<>>)>>,
   <<OpenWith("SCRIPT", <<Attr("src", <<"a.js">>)>>)>>,
   <<Script(<<Attr("src", <<"a.js">>)>>), Script(<<Attr("src", <<"b.js">>), BareAttr("defer")>>),
     TagRun(FALSE, "script", <<Attr("src", <<"c.js">>)>>, FALSE, 2)>>}
ScriptTexts == {ScriptLines(t) : t \in ScriptTags}

\* ---- images
HeroSrc == Attr("src", <<"/", "hero", ".jpg">>)
PngSrc == Attr("src", <<"a.png">>)
\* <img src="/hero.jpg" alt="Hero image" />
SrcAltImg == SelfClosing("img", <<HeroSrc, Attr("alt", <<"Hero", " ", "image">>)>>)
FullImg ==
  OpenWith("img", <<PngSrc, Attr("alt", <<"x">>), Attr("width", <<"8">>),
                    Attr("height", <<"6">>), Attr("loading", <<"lazy">>)>>)
\* <img src="/hero.jpg" alt={title} width={800} height={600} loading="lazy" />
JsxImg ==
  SelfClosing("img", <<HeroSrc, JsxAttr("alt", "{title}"), JsxAttr("width", "{800}"),
                       JsxAttr("height", "{600}"), Attr("loading", <<"lazy">>)>>)
ImgTags ==
  {<<SrcAltImg>>, <<FullImg>>, <<JsxImg>>,
   <<OpenWith("img", <<PngSrc>>)>>,
   <<OpenWith("img", <<Attr("alt", <<>>), Attr("width", <<"8">>), Attr("height", <<"6">>),
                       Attr("loading", <<"eager">>)>>)>>,
   <<OpenWith("img", <<PngSrc, Attr("alt", <<"x">>), Attr("width", <<"8">>),
                       Attr("loading", <<"lazy">>)>>)>>,
   <<OpenWith("img", <<PngSrc, BareAttr("alt"), Attr("width", <<"8">>),
                       Attr("height", <<"6">>), Attr("loading", <<"lazy">>)>>)>>,
   <<OpenWith("img", <<PngSrc, Attr("alt", <<"x">>), Attr("width", <<"8">>),
                       Attr("height", <<"6">>), Attr("loading", <<"auto">>)>>)>>,
   <<OpenWith("img", <<PngSrc, Attr("data-alt", <<"x">>)>>)>>,
   <<Open("img")>>,
   <<OpenWith("IMG", <<PngSrc, Attr("alt", <<"x">>)>>)>>,
   <<FullImg, SrcAltImg, TagRun(FALSE, "img", <<PngSrc>>, FALSE, 2)>>}
RECURSIVE TagLines(_)
TagLines(tags) ==
  IF tags = <<>> THEN <<>> ELSE <<Head(tags), NewLine>> \o TagLines(Tail(tags))
ImgTexts == {TagLines(t) : t \in ImgTags}

\* ---- next/image
PhotoSrc == Attr("src", <<"/", "photo", ".jpg">>)
Sizes == Attr("sizes", <<"100vw">>)
\* <Image src="/hero.jpg" alt="Hero" width={1200} height={630} />
ReadmeImage ==
  SelfClosing("Image", <<HeroSrc, Attr("alt", <<"Hero">>), JsxAttr("width", "{1200}"),
                         JsxAttr("height", "{630}")>>)
NextImageTags ==
  {<<ReadmeImage>>,
   <<SelfClosing("Image", <<HeroSrc, Sizes, BareAttr("priority")>>)>>,
   <<SelfClosing("Image", <<PhotoSrc, Sizes>>)>>,
   <<SelfClosing("Image", <<PhotoSrc>>)>>,
   <<SelfClosing("Image", <<Attr("src", <<"/", "Banner", ".png">>), Sizes>>)>>,
   <<SelfClosing("Image", <<Attr("src", <<"/", "masthead", ".png">>), BareAttr("priority")>>)>>,
   <<SelfClosing("Image", <<JsxAttr("src", "{heroImage}"), Sizes>>)>>,
   <<SelfClosing("Image", <<Attr("src", <<"/", "hero", "/", "photo", ".jpg">>), Sizes>>)>>,
   <<SelfClosing("Image", <<HeroSrc, Attr("alt", <<"high", " ", "priority", " ", "offer">>),
                            Sizes>>)>>,
   <<OpenWith("Image", <<HeroSrc, Sizes, BareAttr("priority")>>), ReadmeImage,
     SelfClosing("Image", <<PhotoSrc>>)>>}
NextImageTexts == {TagLines(t) : t \in NextImageTags}

\* ---- early returns
TooLargeDoc == SizeDoc(KB(SkipAboveKB) + 1)
SkipTexts == {ShortTitleDoc, NoTitleDoc, TooLargeDoc}

\* ---- policy fields no rule reads
\* two @font-face blocks without font-display: swap and one with it, three
\* blocking scripts, a hero image
FontsDoc ==
  <<FontFace(""), NewLine, FontFace("swap"), NewLine, FontFace("block"), NewLine,
    TagRun(FALSE, "script", <<Attr("src", <<"a.js">>)>>, FALSE, 3), NewLine, SrcAltImg>>
UnreadTexts == {FontsDoc, <<FontFace("swap")>>, NoTitleDoc}
UnreadPolicies ==
  {PolicyAbsent,
   PerfPolicy([requireFontDisplaySwap |-> Bool(FALSE)]),
   PerfPolicy([requireFontDisplaySwap |-> Bool(TRUE)]),
   PerfPolicy([lcpImageKB |-> Num(1)]),
   PerfPolicy([lcpImageKB |-> Num(350), requireFontDisplaySwap |-> Bool(TRUE)]),
   PerfPolicy([maxThirdPartyScriptsPerPage |-> Num(2)]),
   PerfPolicy([maxThirdPartyScriptsPerPage |-> Num(2), lcpImageKB |-> Num(1),
               requireFontDisplaySwap |-> Bool(FALSE)])}

\* ---- history
HistoryTexts == {ShortTitleDoc, NoTitleDoc}
HistoryPolicies == {PolicyAbsent, SeoPolicy([titleMin |-> Num(3), titleMax |-> Num(5)])}

CorpusTexts(name) ==
  CASE name = "title" -> TitleTexts
    [] name = "framework" -> FrameworkTexts
    [] name = "imports" -> ImportTexts
    [] name = "og" -> OgTexts
    [] name = "dom" -> DomTexts
    [] name = "size" -> SizeTexts
    [] name = "history" -> HistoryTexts
    [] name = "ranges" -> RangeTexts
    [] name = "fields" -> FieldTexts
    [] name = "broken" -> BrokenTexts
    [] name = "batch" -> BatchTexts
    [] name = "debounce" -> DebounceTexts
    [] name = "scripts" -> ScriptTexts
    [] name = "images" -> ImgTexts
    [] name = "skip" -> SkipTexts
    [] name = "unread" -> UnreadTexts
    [] name = "shared" -> {NoTitleDoc, ShortTitleDoc}
    [] name = "nextimages" -> NextImageTexts
    [] name = "depth" -> {}

CorpusPolicies(name) ==
  CASE name = "title" -> TitlePolicies
    [] name = "framework" -> {PolicyAbsent, PolicyInvalid}
    [] name = "history" -> HistoryPolicies
    [] name = "fields" -> FieldPolicies
    [] name = "broken" -> BrokenPolicies
    [] name = "batch" -> BatchPolicies
    [] name = "unread" -> UnreadPolicies
    [] OTHER -> {PolicyAbsent}

CorpusConfigs(name) ==
  CASE name \in {"imports", "og", "dom", "size", "ranges", "debounce", "scripts",
                  "images", "nextimages", "skip", "shared"} ->
         {DefaultConfig, LaxConfig}
    [] OTHER -> {DefaultConfig}

\* the steps in which time passes: the whole delay at once, or a third of it
CorpusTicks(name) ==
  CASE name \in {"debounce", "shared"} -> {DebounceMs \div 3}
    [] OTHER -> {DebounceMs}

CorpusProbes(c) ==
  IF c.name = "history"
  THEN {Inputs(PageHtml, t, p, DefaultConfig) : t \in HistoryTexts, p \in HistoryPolicies}
  ELSE {NoProbe}

\* the policy file is written or removed, or the configuration edited
EnvironmentChanges(p, c) ==
  /\ <<p, c>> # <<policyFile, settings>>
  /\ policyFile' = p
  /\ settings' = c
  /\ UNCHANGED <<corpus, docText, collection, debounceTimer, lastScan, probe, probeLog,
                 burst, batch, depthVars>>

(***************************************************************************)
(* calculateMaxDOMDepth, one iteration of its while loop at a time.        *)
(***************************************************************************)
\* the most items of a text that is measured step by step
MaxDepthTags == 4

DepthAlphabet ==
  {Open("div"), Close("div"), Open("BR"), SelfClosing("div", <<>>), Word("x")}
DepthTexts == UNION {[1..k -> DepthAlphabet] : k \in 0..MaxDepthTags}

\* tagRegex.exec(html) found the next tag
DepthStep ==
  /\ depthPc = "loop"
  /\ tagIndex < tagCount(html)
  /\ LET tag == nthTag(html, tagIndex + 1) IN
       /\ tagIndex' = tagIndex + 1
       /\ currentDepth' =
            IF IsSkippedTag(tag) THEN currentDepth
            ELSE IF tag.close THEN closeDepth(currentDepth)
            ELSE openDepth(currentDepth)
       /\ maxDepth' =
            IF IsSkippedTag(tag) \/ tag.close THEN maxDepth
            ELSE Max(maxDepth, openDepth(currentDepth))
  /\ UNCHANGED <<corpus, hostVars, html, depthPc>>

\* tagRegex.exec(html) is null: return maxDepth
DepthReturn ==
  /\ depthPc = "loop"
  /\ tagIndex = tagCount(html)
  /\ depthPc' = "returned"
  /\ UNCHANGED <<corpus, hostVars, html, tagIndex, currentDepth, maxDepth>>

(***************************************************************************)
(* The specifications.                                                     *)
(***************************************************************************)
DepthIdle ==
  html = <<>> /\ tagIndex = 0 /\ currentDepth = 0 /\ maxDepth = 0 /\ depthPc = "idle"

\* the state after activate(): an empty collection, no timer
HostInit ==
  /\ docText \in [corpus.files -> CorpusTexts(corpus.name)]
  /\ policyFile \in CorpusPolicies(corpus.name)
  /\ settings \in CorpusConfigs(corpus.name)
  /\ collection = [f \in corpus.files |-> NoEntry]
  /\ debounceTimer = NoTimer
  /\ lastScan = [f \in corpus.files |-> NeverScanned]
  /\ probe \in CorpusProbes(corpus)
  /\ probeLog = NoRuns
  /\ batch = NoBatch
  /\ burst = NoBurst

Next ==
  \/ \E f \in corpus.files : onDidOpenTextDocument(f)
  \/ \E f \in corpus.files : onDidSaveTextDocument(f)
  \/ \E f \in corpus.files : \E t \in CorpusTexts(corpus.name) :
       onDidChangeTextDocument(f, t)
  \/ \E d \in CorpusTicks(corpus.name) : Tick(d)
  \/ TimerFires
  \/ \E p \in CorpusPolicies(corpus.name) : \E c \in CorpusConfigs(corpus.name) :
       EnvironmentChanges(p, c)

Corpus(name, files) == [name |-> name, files |-> files]
TitleCorpus == Corpus("title", {PageHtml})
FrameworkCorpora == {Corpus("framework", {f}) : f \in FrameworkFiles}
ImportsCorpus == Corpus("imports", {AppJs})
OgCorpus == Corpus("og", {PageHtml})
DomCorpus == Corpus("dom", {PageHtml})
SizeCorpus == Corpus("size", {PageHtml})
HistoryCorpus == Corpus("history", {PageHtml, AppJs})
DepthCorpus == Corpus("depth", {})
RangesCorpus == Corpus("ranges", {PageHtml})
FieldsCorpus == Corpus("fields", {PageHtml})
BrokenCorpus == Corpus("broken", {PageHtml})
BatchCorpus == Corpus("batch", {PageHtml, AppJs})
DebounceCorpus == Corpus("debounce", {PageHtml})
ScriptsCorpus == Corpus("scripts", {PageHtml})
ImagesCorpus == Corpus("images", {PageHtml})
SkipCorpus == Corpus("skip", {PageHtml, StyleCss})
UnreadCorpus == Corpus("unread", {PageHtml})
SharedCorpus == Corpus("shared", {PageHtml, AppJs})
NextImagesCorpus == Corpus("nextimages", {CompTsx})

InitTitle == corpus = TitleCorpus /\ HostInit /\ DepthIdle
SpecTitle == InitTitle /\ [][Next]_vars
InitFramework == corpus \in FrameworkCorpora /\ HostInit /\ DepthIdle
SpecFramework == InitFramework /\ [][Next]_vars
InitImports == corpus = ImportsCorpus /\ HostInit /\ DepthIdle
SpecImports == InitImports /\ [][Next]_vars
InitOg == corpus = OgCorpus /\ HostInit /\ DepthIdle
SpecOg == InitOg /\ [][Next]_vars
InitDom == corpus = DomCorpus /\ HostInit /\ DepthIdle
SpecDom == InitDom /\ [][Next]_vars
InitSize == corpus = SizeCorpus /\ HostInit /\ DepthIdle
SpecSize == InitSize /\ [][Next]_vars
InitRanges == corpus = RangesCorpus /\ HostInit /\ DepthIdle
SpecRanges == InitRanges /\ [][Next]_vars
InitFields == corpus = FieldsCorpus /\ HostInit /\ DepthIdle
SpecFields == InitFields /\ [][Next]_vars
InitBroken == corpus = BrokenCorpus /\ HostInit /\ DepthIdle
SpecBroken == InitBroken /\ [][Next]_vars
InitScripts == corpus = ScriptsCorpus /\ HostInit /\ DepthIdle
SpecScripts == InitScripts /\ [][Next]_vars
InitImages == corpus = ImagesCorpus /\ HostInit /\ DepthIdle
SpecImages == InitImages /\ [][Next]_vars
InitNextImages == corpus = NextImagesCorpus /\ HostInit /\ DepthIdle
SpecNextImages == InitNextImages /\ [][Next]_vars
InitSkip == corpus = SkipCorpus /\ HostInit /\ DepthIdle
SpecSkip == InitSkip /\ [][Next]_vars
InitShared == corpus = SharedCorpus /\ HostInit /\ DepthIdle
SpecShared == InitShared /\ [][Next]_vars
InitUnread == corpus = UnreadCorpus /\ HostInit /\ DepthIdle
SpecUnread == InitUnread /\ [][Next]_vars
InitBatch == corpus = BatchCorpus /\ HostInit /\ DepthIdle
\* the command, the open events its openTextDocument calls raise, and the
\* policy file changing under it
NextBatch ==
  \/ \E f \in corpus.files : onDidOpenTextDocument(f)
  \/ \E p \in CorpusPolicies(corpus.name) : \E c \in CorpusConfigs(corpus.name) :
       EnvironmentChanges(p, c)
  \/ kanmiScan
  \/ \E found \in findFiles(corpus.files) : findFilesReturns(found)
  \/ openReturns
  \/ openFails
  \/ cancelRequested
SpecBatch == InitBatch /\ [][NextBatch]_vars
InitDebounce == corpus = DebounceCorpus /\ HostInit /\ DepthIdle
\* the event loop runs a timer that is due: weak fairness of TimerFires, with
\* ENABLED <<TimerFires>>_vars written out (the callback can always run)
TimerDue == debounceTimer.pending /\ debounceTimer.remaining = 0
TimerFairness == []<>(~TimerDue) \/ []<><<TimerFires>>_vars
\* a timer that is due is run, and time does not stand still while one is pending
SpecDebounce ==
  /\ InitDebounce /\ [][Next]_vars
  /\ TimerFairness /\ WF_vars(\E d \in CorpusTicks(corpus.name) : Tick(d))
InitHistory == corpus = HistoryCorpus /\ HostInit /\ DepthIdle
SpecHistory == InitHistory /\ [][Next]_vars

DepthInit ==
  /\ corpus = DepthCorpus
  /\ HostInit
  /\ html \in DepthTexts
  /\ tagIndex = 0
  /\ currentDepth = 0
  /\ maxDepth = 0
  /\ depthPc = "loop"
NextDepth == DepthStep \/ DepthReturn
SpecDepth == DepthInit /\ [][NextDepth]_vars

Init ==
  /\ corpus \in {TitleCorpus, ImportsCorpus, OgCorpus, DomCorpus, SizeCorpus, HistoryCorpus,
                  RangesCorpus, FieldsCorpus, BrokenCorpus}
                  \cup FrameworkCorpora
  /\ HostInit
  /\ DepthIdle
Spec == Init /\ [][Next]_vars

(***************************************************************************)
(* Properties.                                                             *)
(***************************************************************************)
HasCode(diagnostics, code) ==
  \E i \in 1..Len(diagnostics) : diagnostics[i].code = code
CountCode(diagnostics, code) ==
  Cardinality({i \in 1..Len(diagnostics) : diagnostics[i].code = code})
Published(f) == lastScan[f].ran = "published"
\* the policy the last scan of f read
PolicyOf(f) == readPolicy(lastScan[f].policyFile)

Diagnostics(f) == collection[f].diagnostics
Emitted(f, code) == HasCode(Diagnostics(f), code)
\* an opening <title> and a </title> after it
HasTitleElement(text) ==
  \E i \in Indices(text) : \E j \in Indices(text) :
    i < j /\ IsTitleOpen(text[i]) /\ IsTitleClose(text[j])
\* an opening head tag, with or without attributes
HasHeadSection(text) ==
  \E i \in Indices(text) :
    IsTag(text[i]) /\ ~text[i].close /\ toLowerCase(text[i].name) = "head"

\* C1: for every policy whose titleMin <= titleMax and every scanned document
\* with a <title> element, SEO_TITLE_LENGTH is among the published findings
\* exactly when the trimmed title is shorter than titleMin or longer than
\* titleMax; a title of titleMin or titleMax characters gets no warning, one of
\* titleMin - 1 or titleMax + 1 characters gets it.
TitleLengthRule ==
  \A f \in corpus.files :
    LET text == lastScan[f].text
        lo == titleMin(PolicyOf(f))
        hi == titleMax(PolicyOf(f))
        warned == HasCode(collection[f].diagnostics, "SEO_TITLE_LENGTH")
    IN Published(f) /\ lo.t = "number" /\ hi.t = "number" /\ lo.v <= hi.v
       => /\ titleMatch(text).found
             => (warned <=> (TrimLength(titleMatch(text).group1) < lo.v
                             \/ TrimLength(titleMatch(text).group1) > hi.v))
          /\ \A a \in 0..MaxPad, c \in 0..MaxPad :
               /\ text \in {TitleDoc(a, lo.v, c), TitleDoc(a, hi.v, c)} => ~warned
               /\ text \in {TitleDoc(a, lo.v - 1, c), TitleDoc(a, hi.v + 1, c)} => warned

TitleLengthWitness ==
  /\ Published(PageHtml)
  /\ lastScan[PageHtml].policyFile = PolicyAbsent
  /\ lastScan[PageHtml].text = TitleDoc(MaxPad, DefaultTitleMax + 1, MaxPad)
  /\ HasCode(collection[PageHtml].diagnostics, "SEO_TITLE_LENGTH")

\* the atoms of a path before its k-th '/', all of them when it has fewer
BeforeSlash(path, k) ==
  LET slashes == {i \in 1..Len(path) : path[i] = "/"} IN
  IF Cardinality(slashes) < k THEN path
  ELSE SubSeq(path, 1,
              (CHOOSE i \in slashes : Cardinality({j \in slashes : j < i}) = k - 1) - 1)
\* the first two segments of a path that begins with '@', the first segment otherwise
Identity(path) ==
  Concat(IF path[1] = "@" THEN BeforeSlash(path, 2) ELSE BeforeSlash(path, 1))
ImportsOf(text) == {i \in Indices(text) : text[i].k = "import"}
\* the sum of the table sizes of the imports of a text that name a heavy library
RECURSIVE HeavySum(_)
HeavySum(text) ==
  IF text = <<>> THEN 0
  ELSE (IF Head(text).k = "import" /\ Identity(Head(text).path) \in HeavyLibraryNames
        THEN heavySize(Identity(Head(text).path)) ELSE 0)
       + HeavySum(Tail(text))

\* C2: with total the sum of the estimated sizes of the heavy imports of a scanned
\* document, total > 1000 gives WRS_JS_BUNDLE_SIZE_EXCEEDED together with
\* WRS_JS_BUNDLE_SIZE_WARNING, 500 < total <= 1000 gives the warning alone, and
\* total <= 500 gives neither; the document importing moment, lodash, jquery,
\* chart.js, three and d3 gets the error.
BundleTiersAdditive ==
  \A f \in corpus.files :
    LET total == HeavySum(lastScan[f].text)
        warned == Emitted(f, "WRS_JS_BUNDLE_SIZE_WARNING")
        exceeded == Emitted(f, "WRS_JS_BUNDLE_SIZE_EXCEEDED")
    IN Published(f)
       => /\ total > 1000 => warned /\ exceeded
          /\ (total > 500 /\ total <= 1000) => warned /\ ~exceeded
          /\ total <= 500 => ~warned /\ ~exceeded
          /\ lastScan[f].text = SixPackDoc => total = 1206 /\ exceeded

\* C3: every import or require of a scanned document is attributed to its package
\* identity, the first two '/'-separated segments of a path that begins with '@'
\* and the first segment otherwise: a heavy-dependency finding on the statement
\* names that identity, and when the identity is in the table the finding is there
\* with the size of the table; @material-ui/core/Button is attributed to
\* @material-ui/core (350KB) and lodash/map to lodash.
PackageIdentity ==
  \A f \in corpus.files :
    Published(f) =>
      \A i \in ImportsOf(lastScan[f].text) :
        LET text == lastScan[f].text
            path == text[i].path
            found == {k \in 1..Len(Diagnostics(f)) :
                        /\ Diagnostics(f)[k].code = "WRS_HEAVY_DEPENDENCY"
                        /\ Diagnostics(f)[k].range = CopyRange(text, i, 1)}
            names(name, size) ==
              \E k \in found :
                /\ Diagnostics(f)[k].message.args[1] = Str(name)
                /\ Diagnostics(f)[k].message.args[2] = Num(size)
        IN /\ \A k \in found : Diagnostics(f)[k].message.args[1] = Str(Identity(path))
           /\ Identity(path) \in HeavyLibraryNames
                => Cardinality(found) = 1 /\ names(Identity(path), heavySize(Identity(path)))
           /\ path = MaterialButton => names("@material-ui/core", 350)
           /\ path = LodashMap => names("lodash", 72)

PackageIdentityWitness ==
  /\ Published(AppJs)
  /\ lastScan[AppJs].text = ImportLines(<<MaterialButton, <<"chart.js">>>>)
  /\ \E k \in 1..Len(Diagnostics(AppJs)) :
       /\ Diagnostics(AppJs)[k].code = "WRS_HEAVY_DEPENDENCY"
       /\ Diagnostics(AppJs)[k].message.args[1] = Str("@material-ui/core")

\* C4: after a scan of a document of 14.5MB the diagnostics of the document hold
\* both WRS_HTML_SIZE_APPROACHING_LIMIT and WRS_HTML_SIZE_CRITICAL.
PayloadTiersAdditive ==
  \A f \in corpus.files :
    (lastScan[f].ran # "never" /\ byteLength(lastScan[f].text) = FourteenAndAHalfMB)
      => /\ Emitted(f, "WRS_HTML_SIZE_APPROACHING_LIMIT")
         /\ Emitted(f, "WRS_HTML_SIZE_CRITICAL")

\* C5: for a scanned document with a head section, SEO_OG_TAGS_MISSING is emitted,
\* once, exactly when at least 3 of og:title, og:description, og:image and og:url
\* are absent, and its message lists the absent tags and no other.
OpenGraphRule ==
  \A f \in corpus.files :
    LET text == lastScan[f].text
        absent(prop) == ~\E i \in Indices(text) : text[i] = OgMeta(prop)
        missing == SelectSeq(OgTagNames, absent)
    IN (Published(f) /\ HasHeadSection(text))
       => /\ CountCode(Diagnostics(f), "SEO_OG_TAGS_MISSING")
               = (IF Len(missing) >= 3 THEN 1 ELSE 0)
          /\ \A k \in 1..Len(Diagnostics(f)) :
               Diagnostics(f)[k].code = "SEO_OG_TAGS_MISSING"
                 => Diagnostics(f)[k].message.args
                      = <<Num(Len(missing)), Str(JoinComma(missing))>>

\* the opening tags of a text that are neither void nor self-closing
RECURSIVE NonVoidOpenings(_)
NonVoidOpenings(text) ==
  IF text = <<>> THEN 0
  ELSE (IF IsTag(Head(text)) /\ ~Head(text).close /\ ~Head(text).self
           /\ toLowerCase(Head(text).name) \notin selfClosingTags
        THEN Head(text).n ELSE 0)
       + NonVoidOpenings(Tail(text))

\* C6: at every step of calculateMaxDOMDepth the running depth is at least 0, and
\* for a text without closing tags the value returned is the number of its
\* non-void opening tags; the value returned is the one the scan uses.
DepthNeverNegative ==
  /\ currentDepth >= 0
  /\ depthPc = "returned"
       => /\ (\A i \in Indices(html) : IsTag(html[i]) => ~html[i].close)
               => maxDepth = NonVoidOpenings(html)
          /\ maxDepth = calculateMaxDOMDepth(html)

DepthNeverNegativeWitness ==
  /\ depthPc = "returned"
  /\ html = <<Close("div"), Close("div"), Open("div"), Open("div")>>
  /\ currentDepth = 2
  /\ maxDepth = 2

\* C7: a scanned document with more than 800 non-void opening tags gets
\* WRS_DOM_SIZE_WARNING and one with more than 1500 gets WRS_DOM_SIZE_EXCEEDED as
\* well, so one with 1600 gets both; exactly 800 gives no warning and exactly
\* 1500 no error.
DomBudgetAdditive ==
  \A f \in corpus.files :
    LET count == NonVoidOpenings(lastScan[f].text) IN
    Published(f)
      => /\ count > 800 => Emitted(f, "WRS_DOM_SIZE_WARNING")
         /\ count > 1500 => Emitted(f, "WRS_DOM_SIZE_EXCEEDED")
         /\ count = 800 => ~Emitted(f, "WRS_DOM_SIZE_WARNING")
         /\ count = 1500 => ~Emitted(f, "WRS_DOM_SIZE_EXCEEDED")

\* C8: a scanned document with a <title> element gets no SEO_TITLE_MISSING and at
\* most one SEO_TITLE_LENGTH; <head><title>Short</title></head> under the default
\* policy gets exactly one SEO_TITLE_LENGTH and no SEO_TITLE_MISSING.
TitlePresent ==
  \A f \in corpus.files :
    (Published(f) /\ HasTitleElement(lastScan[f].text))
      => /\ ~Emitted(f, "SEO_TITLE_MISSING")
         /\ CountCode(Diagnostics(f), "SEO_TITLE_LENGTH") <= 1
         /\ (lastScan[f].text = ShortTitleDoc /\ lastScan[f].policyFile = PolicyAbsent)
              => CountCode(Diagnostics(f), "SEO_TITLE_LENGTH") = 1

TitlePresentWitness ==
  /\ Published(PageHtml)
  /\ lastScan[PageHtml].text = ShortTitleDoc
  /\ lastScan[PageHtml].policyFile = PolicyAbsent
  /\ CountCode(Diagnostics(PageHtml), "SEO_TITLE_LENGTH") = 1
  /\ ~Emitted(PageHtml, "SEO_TITLE_MISSING")

\* an import or require of next/head, or an import from "next"
HasHeadLibraryMarker(text) ==
  \E i \in ImportsOf(text) :
    \/ text[i].path = <<"next", "/", "head">>
    \/ text[i].form = "from" /\ text[i].path = <<"next">>

\* C9: a scanned document without a literal <title> tag gets no SEO_TITLE_MISSING
\* when its text carries a marker of the head-management library or its file
\* name ends in .jsx or .tsx, a <head> section notwithstanding.
FrameworkSuppression ==
  \A f \in corpus.files :
    (/\ Published(f)
     /\ ~\E i \in Indices(lastScan[f].text) : IsTitleOpen(lastScan[f].text[i])
     /\ (HasHeadLibraryMarker(lastScan[f].text) \/ f.ext \in {"jsx", "tsx"}))
      => ~Emitted(f, "SEO_TITLE_MISSING")

FrameworkSuppressionWitness ==
  /\ PageHtml \in corpus.files
  /\ Published(PageHtml)
  /\ lastScan[PageHtml].text = Component(NextHeadImport)
  /\ HasHeadSection(lastScan[PageHtml].text)
  /\ ~Emitted(PageHtml, "SEO_TITLE_MISSING")
  /\ Diagnostics(PageHtml) # <<>>

\* C10: a scan that publishes for the inputs (text, file name, policy file,
\* settings) of the probe publishes the diagnostics the first such scan published,
\* the same codes, ranges, messages and severities in the same order, whatever
\* was scanned before it or in between.
HistoryIndependent ==
  \A f \in corpus.files :
    (/\ Published(f)
     /\ probe = Inputs(f, lastScan[f].text, lastScan[f].policyFile, lastScan[f].settings))
      => probeLog.runs >= 1 /\ Diagnostics(f) = probeLog.diagnostics

HistoryIndependentWitness ==
  /\ probeLog.runs = MaxProbeRuns
  /\ probe = Inputs(PageHtml, lastScan[PageHtml].text, lastScan[PageHtml].policyFile,
                    lastScan[PageHtml].settings)
  /\ Published(PageHtml)
  /\ Published(AppJs)
  /\ Diagnostics(PageHtml) = probeLog.diagnostics
  /\ Len(Diagnostics(PageHtml)) >= 2


\* the characters of line number line (counted from 0) of a text
RECURSIVE LineLength(_, _)
LineLength(text, line) ==
  IF text = <<>> THEN 0
  ELSE IF Head(text).k = "nl"
       THEN (IF line = 0 THEN 0 ELSE LineLength(Tail(text), line - 1))
       ELSE (IF line = 0 THEN ItemLen(Head(text)) ELSE 0) + LineLength(Tail(text), line)
\* a position on a line of the text, at a character of it or just behind its last
InText(text, pos) ==
  /\ pos.line >= 0 /\ pos.line <= LinesIn(text)
  /\ pos.character >= 0 /\ pos.character <= LineLength(text, pos.line)
Before(p, q) == p.line < q.line \/ (p.line = q.line /\ p.character <= q.character)

\* C11: the range of every diagnostic published for a scanned text, the empty
\* text and a text whose first line is empty included, lies within that text:
\* its start and its end are positions of the text, the start not behind the end;
\* this for the ranges of matches and for the range (0,0)-(0,1) alike.
RangesWithinText ==
  \A f \in corpus.files :
    Published(f) =>
      \A k \in 1..Len(Diagnostics(f)) :
        /\ InText(lastScan[f].text, Diagnostics(f)[k].range.start)
        /\ InText(lastScan[f].text, Diagnostics(f)[k].range.end)
        /\ Before(Diagnostics(f)[k].range.start, Diagnostics(f)[k].range.end)

\* the type the scan expects of each policy field
ExpectedType ==
  [f \in {"titleMin", "titleMax", "metaDescriptionMin", "metaDescriptionMax",
          "maxThirdPartyScriptsPerPage"} |-> "number"]
    @@ [f \in {"requireCanonical"} |-> "boolean"] @@ [f \in {"requireJsonLdFor"} |-> "array"]
\* a section without its fields of a wrong type
WellTypedSection(section) ==
  [f \in {g \in DOMAIN section :
            g \notin DOMAIN ExpectedType \/ section[g].t = ExpectedType[g]} |-> section[f]]
\* a policy object without its fields of a wrong type
WellTyped(policy) ==
  [seo |-> WellTypedSection(policy.seo), perf |-> WellTypedSection(policy.perf)]
Thresholds(policy, config) ==
  [titleMin |-> titleMin(policy), titleMax |-> titleMax(policy),
   metaDescriptionMin |-> descMin(policy), metaDescriptionMax |-> descMax(policy),
   requireCanonical |-> requireCanonical(policy, config),
   requireJsonLdFor |-> requireTypes(policy),
   maxThirdPartyScriptsPerPage |-> maxTP(policy, config)]

\* C12: each threshold of a scan takes its default when its policy field is
\* absent or of a wrong type, whatever the other fields hold: the thresholds a
\* scan resolved, and the diagnostics it published, are those of the same policy
\* without its wrong-typed fields.
PerFieldFallback ==
  \A f \in corpus.files :
    Published(f) =>
      /\ Thresholds(PolicyOf(f), lastScan[f].settings)
           = Thresholds(WellTyped(PolicyOf(f)), lastScan[f].settings)
      /\ Diagnostics(f)
           = detect(lastScan[f].text, f, WellTyped(PolicyOf(f)), lastScan[f].settings)

\* a scan of f has run on a text the size gate lets through
Scanned(f) == lastScan[f].ran # "never" /\ ~isSkipped(f, lastScan[f].text)
\* a policy file that holds no policy: absent, unreadable, no JSON, or JSON that
\* is not an object of sections with fields of the expected types
IsBroken(file) ==
  \/ file.state # "json"
  \/ "seo" \notin DOMAIN file.value
  \/ WellTyped(file.value) # file.value
\* what is left of a broken policy file
Usable(file) ==
  IF file.state = "json" /\ "seo" \in DOMAIN file.value THEN WellTyped(file.value)
  ELSE EmptyPolicy

\* C13: whatever the state of the policy file (absent, unreadable, not valid
\* JSON, JSON of an unexpected shape), a scan completes, raises no error and
\* publishes the diagnostics of the defaults.
ConfigErrorsRecovered ==
  \A f \in corpus.files :
    (Scanned(f) /\ IsBroken(lastScan[f].policyFile)) =>
      /\ lastScan[f].ran = "published"
      /\ Diagnostics(f)
           = detect(lastScan[f].text, f, Usable(lastScan[f].policyFile), lastScan[f].settings)

SkipAboveBytes == SkipAboveKB * BytesPerKB

\* C14: a scan of a supported document of more than 500KB (bytes of UTF-8, not
\* characters) is skipped and no step changes what is published for a document
\* while its text is above 500KB; a document of exactly 500KB is scanned and
\* the diagnostics of its text are published.
SizeGate ==
  /\ [](\A f \in corpus.files :
          (lastScan[f].ran # "never" /\ isSupportedFile(f)) =>
            /\ byteLength(lastScan[f].text) > SkipAboveBytes => lastScan[f].ran = "skipped"
            /\ byteLength(lastScan[f].text) = SkipAboveBytes =>
                 /\ lastScan[f].ran = "published"
                 /\ Diagnostics(f)
                      = detect(lastScan[f].text, f, PolicyOf(f), lastScan[f].settings))
  /\ [][\A f \in corpus.files :
          (byteLength(docText[f]) > SkipAboveBytes /\ docText'[f] = docText[f])
            => collection'[f] = collection[f]]_vars
\* a document of 256004 characters and 512002 bytes was skipped with nothing
\* published for it
SizeGateWitness ==
  \E f \in corpus.files :
    lastScan[f].ran = "skipped" /\ lastScan[f].text = WideDoc /\ ~collection[f].set

BatchEnded == batch.pc \in {"cancelled", "completed", "failed"}
\* the indices (from 0) of the files of the run
BatchIndices == 0..(Len(batch.files) - 1)

\* C15: a workspace scan that was not cancelled does not end before every file
\* found was opened and scanned and the completion message was shown, also when
\* opening or scanning one of the files failed.
BatchIsolation ==
  (BatchEnded /\ batch.pc # "cancelled") =>
    /\ batch.opened = BatchIndices
    /\ batch.i = Len(batch.files)
    /\ ScannedMessage(Len(batch.files)) \in batch.shown

\* C16: the token is looked at before each file.  A run that finds cancellation
\* requested at the head of iteration i shows the cancelled warning and ends: it
\* has opened files 0..i-1 and no other, it does nothing more (no file is
\* opened, no completion message shown), and what it published for files
\* 0..i-1 is still published.  No file is opened once cancellation is requested.
Cancellation ==
  /\ [](batch.pc = "cancelled" =>
          /\ batch.token /\ batch.i < Len(batch.files)
          /\ batch.shown = {CancelledMessage}
          /\ batch.opened = 0..(batch.i - 1)
          /\ \A k \in 1..batch.i : collection[batch.files[k]].set)
  /\ [][/\ batch.pc = "cancelled" => (batch' = batch \/ batch' = [NoBatch EXCEPT !.pc = "finding"])
        /\ (batch'.pc = "opening" /\ batch'.opened # batch.opened) => ~batch.token
        /\ (batch.token /\ BatchRunning /\ batch' # batch) =>
             \/ batch'.pc \in {"cancelled", "failed"}
             \/ batch'.pc = "completed" /\ batch'.i = Len(batch'.files)
        /\ (batch.pc = "opening" /\ batch'.pc = "cancelled") =>
             \A f \in corpus.files :
               f # batch.files[batch.i + 1] => collection'[f] = collection[f]]_vars
\* a run of two files cancelled at the head of its second iteration
CancellationWitness ==
  /\ batch.pc = "cancelled" /\ batch.i = 1 /\ Len(batch.files) = 2
  /\ collection[batch.files[1]].set /\ ~collection[batch.files[2]].set

\* C17: a burst of change events on the document is scanned once by the
\* timer: no timer scan comes before 300 ms have passed without a change event,
\* the scan reads the text the document has then and leaves no timer pending,
\* no second timer scan follows without a new change event, and a pending timer
\* leads to its scan unless a newer change event replaces it.
Debounce ==
  /\ [](burst.scans <= 1)
  /\ [][burst'.scans = burst.scans + 1 =>
          /\ burst.quiet = DebounceMs /\ burst.events >= 1
          /\ lastScan'[debounceTimer.doc].text = docText[debounceTimer.doc]
          /\ lastScan'[debounceTimer.doc].ran = "published"
          /\ ~debounceTimer'.pending]_vars
  /\ ((debounceTimer.pending /\ burst.quiet > 0) ~> (burst.scans = 1 \/ burst.quiet = 0))
\* two change events less than 300 ms apart, then one timer scan of the last text
DebounceWitness ==
  /\ burst.events = 2 /\ burst.gap > 0 /\ burst.gap < DebounceMs
  /\ burst.scans = 1 /\ burst.quiet = DebounceMs /\ ~debounceTimer.pending
  /\ lastScan[PageHtml].text = docText[PageHtml] /\ collection[PageHtml].set

\* C18: in every scanned document an import or require statement carries one
\* WRS_HEAVY_DEPENDENCY finding, of severity Information, when its package identity
\* is a name of the heavy-library table and none otherwise; no other place carries
\* such a finding; and the running total is the sum of the table sizes of the
\* statements that name a table entry.
HeavyRecognitionExact ==
  \A f \in corpus.files :
    Published(f) =>
      LET text == lastScan[f].text
          heavy == {k \in 1..Len(Diagnostics(f)) :
                      Diagnostics(f)[k].code = "WRS_HEAVY_DEPENDENCY"}
          on(i) == {k \in heavy : Diagnostics(f)[k].range = CopyRange(text, i, 1)}
      IN /\ \A i \in ImportsOf(text) :
              Cardinality(on(i))
                = IF Identity(text[i].path) \in HeavyLibraryNames THEN 1 ELSE 0
         /\ \A k \in heavy :
              /\ Diagnostics(f)[k].severity = "Information"
              /\ \E i \in ImportsOf(text) : k \in on(i)
         /\ totalEstimatedBundleSize(text) = Num(HeavySum(text))

\* C19: a scanned document with no title element gets exactly one
\* SEO_TITLE_MISSING, of severity Warning, when it has a head section (an opening
\* head tag, with or without attributes), its text carries no marker of the
\* head-management library and its file name does not end in .jsx or .tsx.
MissingTitleRule ==
  \A f \in corpus.files :
    (/\ Published(f)
     /\ ~HasTitleElement(lastScan[f].text)
     /\ HasHeadSection(lastScan[f].text)
     /\ ~HasHeadLibraryMarker(lastScan[f].text)
     /\ f.ext \notin {"jsx", "tsx"})
      => /\ CountCode(Diagnostics(f), "SEO_TITLE_MISSING") = 1
         /\ \A k \in 1..Len(Diagnostics(f)) :
              Diagnostics(f)[k].code = "SEO_TITLE_MISSING"
                => Diagnostics(f)[k].severity = "Warning"

\* an opening script tag that carries a src attribute
IsScriptWithSrc(it) ==
  IsTag(it) /\ ~it.close /\ toLowerCase(it.name) = "script"
    /\ \E a \in 1..Len(it.attrs) : it.attrs[a].an = "src"
\* it has neither an async attribute nor a defer attribute
LacksAsyncAndDefer(it) ==
  \A a \in 1..Len(it.attrs) : it.attrs[a].an \notin {"async", "defer"}
RECURSIVE BlockingScripts(_)
BlockingScripts(text) ==
  IF text = <<>> THEN 0
  ELSE (IF IsScriptWithSrc(Head(text)) /\ LacksAsyncAndDefer(Head(text))
        THEN Head(text).n ELSE 0)
       + BlockingScripts(Tail(text))

\* C20: in every scanned document each script tag with a src attribute carries
\* one PERF_SCRIPT_BLOCKING warning, ranged on the tag, when it has neither an
\* async nor a defer attribute and none when it has one of them, whatever its
\* URL; and the number of these warnings is the number of such tags.
BlockingScriptRule ==
  \A f \in corpus.files :
    Published(f) =>
      LET text == lastScan[f].text
          blocking == {k \in 1..Len(Diagnostics(f)) :
                         Diagnostics(f)[k].code = "PERF_SCRIPT_BLOCKING"}
      IN /\ \A i \in Indices(text) :
              IsScriptWithSrc(text[i]) =>
                \A c \in 1..text[i].n :
                  Cardinality({k \in blocking :
                                 Diagnostics(f)[k].range = CopyRange(text, i, c)})
                    = IF LacksAsyncAndDefer(text[i]) THEN 1 ELSE 0
         /\ \A k \in blocking : Diagnostics(f)[k].severity = "Warning"
         /\ Cardinality(blocking) = BlockingScripts(text)

\* an opening <img> tag
IsImg(it) == IsTag(it) /\ ~it.close /\ toLowerCase(it.name) = "img"
\* the findings of a code that lie on the c-th copy of item i of the scanned text
FindingsOn(f, code, i, c) ==
  {k \in 1..Len(Diagnostics(f)) :
     /\ Diagnostics(f)[k].code = code
     /\ Diagnostics(f)[k].range = CopyRange(lastScan[f].text, i, c)}
Once(f, code, severity, i, c) ==
  /\ Cardinality(FindingsOn(f, code, i, c)) = 1
  /\ \A k \in FindingsOn(f, code, i, c) : Diagnostics(f)[k].severity = severity

\* C21: in every scanned document each <img> tag carries SEO_IMG_ALT_MISSING
\* (Warning) exactly when it has no alt attribute, PERF_IMG_DIMENSIONS_MISSING
\* (Warning) exactly when it lacks a width or a height attribute, and
\* PERF_IMG_LOADING_MISSING (Information) exactly when it has no loading
\* attribute, each whatever the other two; a tag with all four attributes carries
\* none of them, and <img src alt> carries the second and not the first.
PlainImgRule ==
  \A f \in corpus.files :
    Published(f) =>
      \A i \in Indices(lastScan[f].text) :
        LET it == lastScan[f].text[i] IN
        IsImg(it) =>
          \A c \in 1..it.n :
            /\ IF HasAttr(it, "alt")
               THEN FindingsOn(f, "SEO_IMG_ALT_MISSING", i, c) = {}
               ELSE Once(f, "SEO_IMG_ALT_MISSING", "Warning", i, c)
            /\ IF HasAttr(it, "width") /\ HasAttr(it, "height")
               THEN FindingsOn(f, "PERF_IMG_DIMENSIONS_MISSING", i, c) = {}
               ELSE Once(f, "PERF_IMG_DIMENSIONS_MISSING", "Warning", i, c)
            /\ IF HasAttr(it, "loading")
               THEN FindingsOn(f, "PERF_IMG_LOADING_MISSING", i, c) = {}
               ELSE Once(f, "PERF_IMG_LOADING_MISSING", "Information", i, c)

\* an opening <Image> tag
IsImageComponent(it) == IsTag(it) /\ ~it.close /\ it.name = "Image"
\* the atoms of a path after its last '/'
FileName(path) ==
  LET slashes == {i \in 1..Len(path) : path[i] = "/"} IN
  IF slashes = {} THEN path
  ELSE SubSeq(path, (CHOOSE i \in slashes : \A j \in slashes : j <= i) + 1, Len(path))
\* the file name of the quoted src of the tag contains hero, banner or masthead
LikelyLcpCandidate(it) ==
  \E a \in 1..Len(it.attrs) :
    /\ it.attrs[a].an = "src" /\ IsQuoted(it.attrs[a])
    /\ \E b \in 1..Len(FileName(it.attrs[a].av)) : FileName(it.attrs[a].av)[b] \in LcpAtoms

\* C22: in every scanned document each <Image> tag carries
\* PERF_NEXTIMG_SIZES_MISSING (Warning) exactly when it has no sizes attribute
\* and PERF_NEXTIMG_PRIORITY_MISSING (Information) exactly when the file name of
\* its src contains hero, banner or masthead and it has no priority attribute; a
\* tag with sizes and priority carries neither.
NextImageRule ==
  \A f \in corpus.files :
    Published(f) =>
      \A i \in Indices(lastScan[f].text) :
        LET it == lastScan[f].text[i] IN
        IsImageComponent(it) =>
          \A c \in 1..it.n :
            /\ IF HasAttr(it, "sizes")
               THEN FindingsOn(f, "PERF_NEXTIMG_SIZES_MISSING", i, c) = {}
               ELSE Once(f, "PERF_NEXTIMG_SIZES_MISSING", "Warning", i, c)
            /\ IF LikelyLcpCandidate(it) /\ ~HasAttr(it, "priority")
               THEN Once(f, "PERF_NEXTIMG_PRIORITY_MISSING", "Information", i, c)
               ELSE FindingsOn(f, "PERF_NEXTIMG_PRIORITY_MISSING", i, c) = {}

\* C23: for every scanned document the element count of the DOM-size budget is
\* the number of its opening tags that are neither void elements nor
\* self-closing, each counted once whatever its attributes, and the DOM-size
\* findings are decided on, and report, that number.
ElementCounter ==
  \A f \in corpus.files :
    Published(f) =>
      LET count == NonVoidOpenings(lastScan[f].text) IN
      /\ totalElements(lastScan[f].text) = count
      /\ Emitted(f, "WRS_DOM_SIZE_WARNING") <=> count > DomWarnAbove
      /\ Emitted(f, "WRS_DOM_SIZE_EXCEEDED") <=> count > DomErrorAbove
      /\ \A k \in 1..Len(Diagnostics(f)) :
           Diagnostics(f)[k].code \in {"WRS_DOM_SIZE_WARNING", "WRS_DOM_SIZE_EXCEEDED"}
             => Diagnostics(f)[k].message.args = <<Num(count)>>

\* the file name has none of the extensions scanned, or the text is above 500KB
ReturnsEarly(f, text) ==
  f.ext \notin {"js", "jsx", "ts", "tsx", "html"} \/ byteLength(text) > SkipAboveBytes

\* C24: a scan that returns early (unsupported extension, text above 500KB)
\* does not write the collection: no step changes the entry of a document whose
\* text, unchanged by the step, makes its scan return early; the entry of a
\* document changes only in a scan that did not return early, to the diagnostics
\* of the text scanned; so the entry is the one of the last scan that was not
\* skipped, neither cleared nor refreshed when the document became too large.
SkipKeepsPublished ==
  /\ [][\A f \in corpus.files :
          /\ (ReturnsEarly(f, docText[f]) /\ docText'[f] = docText[f])
               => collection'[f] = collection[f]
          /\ (lastScan'[f].ran = "skipped") => collection'[f] = collection[f]
          /\ collection'[f] # collection[f]
               => /\ ~ReturnsEarly(f, docText[f])
                  /\ lastScan'[f].ran = "published" /\ lastScan'[f].text = docText[f]
                  /\ collection'[f]
                       = [set |-> TRUE,
                          diagnostics |-> detect(docText[f], f, readPolicy(policyFile),
                                                 settings)]]_vars
  /\ [](\A f \in corpus.files : ~isSupportedFile(f) => ~collection[f].set)
\* the page was scanned while small, grew above 500KB and was scanned again:
\* the findings of the small text are still published; the style sheet was
\* scanned and has no entry
SkipKeepsPublishedWitness ==
  /\ lastScan[PageHtml].ran = "skipped" /\ lastScan[PageHtml].text = TooLargeDoc
  /\ docText[PageHtml] = TooLargeDoc
  /\ collection[PageHtml].set
  /\ Diagnostics(PageHtml) = detect(ShortTitleDoc, PageHtml, readPolicy(policyFile), settings)
  /\ Diagnostics(PageHtml) # <<>>
  /\ lastScan[StyleCss].ran = "skipped" /\ ~collection[StyleCss].set

\* the text of the document changed after its last scan and no timer is
\* pending for it
ChangeUnscanned(f) ==
  /\ lastScan[f].text # docText[f]
  /\ ~(debounceTimer.pending /\ debounceTimer.doc = f)

\* C25: one debounce timer serves all documents.  A change event on a document
\* scans nothing and leaves one pending timer, for that document and with the
\* full 300 ms to run, whatever document a pending timer was for; the timer scans
\* its own document and no other; and a change whose timer was replaced stays
\* unscanned until an open, save or change event on its document.
SharedTimer ==
  [][/\ \A g \in corpus.files :
          docText'[g] # docText[g]
            => /\ debounceTimer'.pending /\ debounceTimer'.doc = g
               /\ debounceTimer'.remaining = DebounceMs
               /\ lastScan' = lastScan /\ collection' = collection
     /\ (debounceTimer.pending /\ ~debounceTimer'.pending)
          => /\ debounceTimer.remaining = 0
             /\ lastScan'[debounceTimer.doc].text = docText[debounceTimer.doc]
             /\ \A f \in corpus.files :
                  f # debounceTimer.doc
                    => lastScan'[f] = lastScan[f] /\ collection'[f] = collection[f]
     /\ \A f \in corpus.files :
          (ChangeUnscanned(f) /\ ~ChangeUnscanned(f)')
            => \/ docText'[f] # docText[f]
               \/ /\ debounceTimer' = debounceTimer
                  /\ lastScan'[f].text = docText[f]
                  /\ \A g \in corpus.files : g # f => lastScan'[g] = lastScan[g]]_vars
\* page.html was scanned, then changed; app.js changed less than 300 ms later and
\* the timer scanned app.js: the change of page.html is still unscanned
SharedTimerWitness ==
  /\ burst.events = 2 /\ burst.gap > 0 /\ burst.gap < DebounceMs /\ burst.scans = 1
  /\ ~debounceTimer.pending /\ debounceTimer.doc = AppJs
  /\ lastScan[AppJs].ran = "published" /\ lastScan[AppJs].text = docText[AppJs]
  /\ lastScan[PageHtml].ran = "published" /\ ChangeUnscanned(PageHtml)

UnreadPerfFields == {"requireFontDisplaySwap", "lcpImageKB"}
\* the policy without perf.requireFontDisplaySwap and perf.lcpImageKB
WithoutUnread(policy) ==
  IF policy.perf.present
  THEN [policy EXCEPT
          !.perf = [k \in DOMAIN policy.perf \ UnreadPerfFields |-> policy.perf[k]]]
  ELSE policy
FontFacesLackingSwap(text) ==
  {i \in Indices(text) : text[i].k = "fontface" /\ text[i].display # "swap"}

\* C26: the diagnostics published by a scan are those of the same text, file
\* name and settings under the policy without perf.requireFontDisplaySwap and
\* perf.lcpImageKB, so two scans whose policies differ in these fields only
\* publish the same sequence; and every @font-face block without font-display:
\* swap carries PERF_FONT_DISPLAY_MISSING whatever requireFontDisplaySwap is.
UnreadPolicyFields ==
  \A f \in corpus.files :
    Published(f) =>
      /\ Diagnostics(f)
           = detect(lastScan[f].text, f, WithoutUnread(PolicyOf(f)), lastScan[f].settings)
      /\ \A i \in Indices(lastScan[f].text) :
           Cardinality(FindingsOn(f, "PERF_FONT_DISPLAY_MISSING", i, 1))
             = IF i \in FontFacesLackingSwap(lastScan[f].text) THEN 1 ELSE 0
\* a scan under { "perf": { "requireFontDisplaySwap": false, ... } } of a text with
\* two blocks without font-display: swap published the finding for both
UnreadPolicyFieldsWitness ==
  /\ Published(PageHtml) /\ lastScan[PageHtml].text = FontsDoc
  /\ PerfField(PolicyOf(PageHtml), "requireFontDisplaySwap") = Bool(FALSE)
  /\ PerfField(PolicyOf(PageHtml), "lcpImageKB") = Num(1)
  /\ CountCode(Diagnostics(PageHtml), "PERF_FONT_DISPLAY_MISSING") = 2
  /\ Emitted(PageHtml, "PERF_SCRIPT_COUNT_EXCEEDED")

====
